---- MODULE Spec2Model ----
(***************************************************************************)
(* A model of the MCP server of this repository: the tool registry, the    *)
(* change-event bus, the request router (McpServer) and the tool handlers. *)
(***************************************************************************)
EXTENDS Integers, Sequences, FiniteSets, TLC

VARIABLES
    tools,        \* ToolRegistry.tools: the Map, as a sequence in insertion order
    listeners,    \* the 'toolChange' listeners of mcpEventEmitter, in subscription order
    lastCall,     \* the most recent registry call: its return and what it emitted
    now,          \* Date.now()
    connected,    \* McpServer.isConnected(): the SDK server has a transport
    requests,     \* the requests in flight, by correlation id
    lastResponse, \* the most recent response envelope handed to the transport
    lifecycle,    \* the transport and the calls of Server.close() so far
    proc,         \* the process: running, stopping, or exited with a code
    host          \* the command line, the HTTP listener, the signals and the timers

vars == <<tools, listeners, lastCall, now, connected, requests, lastResponse,
          lifecycle, proc, host>>

\* ---------------------------------------------------------------- bounds
MaxSubscribers == 2
MaxTime == 1
MaxReq == 2
MaxClose == 2
MaxConns == 1

\* ---------------------------------------------------------------- tools
helloWorldTool ==
    [name |-> "hello-world", description |-> "Returns a simple greeting message",
     inputSchema |-> "HelloWorldInput", handler |-> "handleHelloWorld"]

echoTool ==
    [name |-> "echo", description |-> "Echoes back the provided text",
     inputSchema |-> "EchoInput", handler |-> "handleEcho"]

healthTool ==
    [name |-> "health", description |-> "Returns server health status",
     inputSchema |-> "HealthInput", handler |-> "handleHealth"]

notificationTool ==
    [name |-> "send-notification", description |->
        "Send a desktop notification on macOS with icon, image, and sound customization",
     inputSchema |-> "NotificationInput", handler |-> "handleNotification"]

calculatorTool ==
    [name |-> "calculator", description |-> "Perform basic mathematical calculations",
     inputSchema |-> "CalculatorInput", handler |-> "calculatorHandler"]

updatedTool ==
    [calculatorTool EXCEPT
        !.description = "Perform basic mathematical calculations with enhanced precision"]

\* A tool registered under the name of a built-in tool, with another handler
replacedNotificationTool ==
    [notificationTool EXCEPT !.description = "Replaced", !.handler = "handleHealth"]

\* tools/index.ts: the built-in tools, in the order of the array
builtinTools == <<helloWorldTool, echoTool, healthTool, notificationTool>>

\* ---------------------------------------------------------------- the Map
\* Map.prototype.has / get / set / delete on a sequence kept in insertion order
IndexOf(m, name) ==
    IF \E i \in 1..Len(m) : m[i].name = name
    THEN CHOOSE i \in 1..Len(m) : m[i].name = name
    ELSE 0

MapHas(m, name) == IndexOf(m, name) # 0

MapSetAppends(m, tool) == Append(m, tool)

\* set: an existing key keeps its position, a new key goes to the end
MapSet(m, tool) ==
    IF MapHas(m, tool.name)
    THEN [m EXCEPT ![IndexOf(m, tool.name)] = tool]
    ELSE Append(m, tool)

MapDeleteMovesLast(m, name) ==
    IF ~MapHas(m, name) THEN m
    ELSE SubSeq([m EXCEPT ![IndexOf(m, name)] = m[Len(m)]], 1, Len(m) - 1)

\* delete: the other keys keep their order
MapDelete(m, name) == SelectSeq(m, LAMBDA t : t.name # name)

\* ToolRegistry.get: the tool, or undefined
get(m, name) == IF MapHas(m, name) THEN m[IndexOf(m, name)] ELSE [t |-> "undefined"]

\* ToolRegistry.getNames / getAll / has / size
getNames(m) == [i \in 1..Len(m) |-> m[i].name]
getAll(m) == m
has(m, name) == MapHas(m, name)
size(m) == Len(m)

\* ---------------------------------------------------------------- the bus
\* The kinds of listener: the router's toolChangeListener, a listener that
\* returns normally, and a listener that throws.
RouterListener == "router"
SubscriberKinds == {"spy", "thrower"}

\* Listeners that call the registry from inside the handler: one registers
\* the calculator when it is told of a removal by clear(), one unregisters
\* every tool it is told was added or updated.
ReentrantKinds == {"registrar", "remover"}

\* The event of ToolRegistry.register, and of unregister and clear
RegisterEvent(existingTool, tool, t) ==
    [type |-> IF existingTool THEN "tool_updated" ELSE "tool_added",
     toolName |-> tool.name,
     timestamp |-> t,
     metadata |-> [description |-> tool.description,
                   inputSchema |-> tool.inputSchema,
                   reason |-> IF existingTool THEN "Tool definition updated"
                              ELSE "New tool registered"]]

RemovedEvent(toolName, t, reason) ==
    [type |-> "tool_removed", toolName |-> toolName, timestamp |-> t,
     metadata |-> [reason |-> reason]]

\* The registry call a listener makes from inside its handler, with the
\* registry it finds: the registry the call's mutation leaves and the event
\* the call emits
Reaction(kind, event, m, t) ==
    IF /\ kind = "registrar"
       /\ event.type = "tool_removed"
       /\ event.metadata.reason = "Registry cleared"
    THEN [tools |-> MapSet(m, calculatorTool),
          events |-> <<RegisterEvent(MapHas(m, calculatorTool.name), calculatorTool, t)>>]
    ELSE IF /\ kind = "remover"
            /\ event.type \in {"tool_added", "tool_updated"}
            /\ MapHas(m, event.toolName)
    THEN [tools |-> MapDelete(m, event.toolName),
          events |-> <<RemovedEvent(event.toolName, t, "Tool unregistered")>>]
    ELSE [tools |-> m, events |-> <<>>]

\* The calls EventEmitter.emit makes for an event: every listener, in
\* subscription order
ToAll(ls, event) == [i \in 1..Len(ls) |-> [listener |-> i, event |-> event]]

\* The wrapper EventEmitter.once subscribes for a listener
OnceWrapper(l) == "once " \o l
IsOnce(kind) == kind \in {OnceWrapper("spy")}

\* The calls of an emit that are left when the wrappers of once() that have
\* fired, and so have removed themselves, are not called
Live(pending, fired) == SelectSeq(pending, LAMBDA d : d.listener \notin fired)

\* EventEmitter.emit with the listener calls still to make: a listener is
\* called with the registry as it is; the emit of a registry call it makes
\* runs to its end before the next listener is called; an exception of a
\* listener leaves every emit under way; a wrapper of once() removes itself
\* and then calls its listener, the first time it is called.
RECURSIVE Deliver(_, _, _, _, _)
Deliver(pending, m, ls, t, acc) ==
    IF Live(pending, acc.fired) = <<>> THEN [acc EXCEPT !.tools = m]
    ELSE LET d == Head(Live(pending, acc.fired))
             kind == ls[d.listener]
             called == [acc EXCEPT
                            !.calls = Append(@, [listener |-> d.listener, kind |-> kind,
                                                 event |-> d.event]),
                            !.seen = Append(@, m),
                            !.tools = m,
                            !.fired = IF IsOnce(kind) THEN @ \cup {d.listener} ELSE @]
         IN  IF kind = "thrower" THEN [called EXCEPT !.threw = TRUE]
             ELSE LET r == Reaction(kind, d.event, m, t)
                  IN  Deliver((IF r.events = <<>> THEN <<>> ELSE ToAll(ls, r.events[1]))
                                \o Tail(Live(pending, acc.fired)),
                              r.tools, ls, t, called)

\* EventEmitter.emit when the wrappers in fired have removed themselves
emitAfter(ls, event, m, t, fired) ==
    Deliver(ToAll(ls, event), m, ls, t,
            [calls |-> <<>>, seen |-> <<>>, threw |-> FALSE, tools |-> m,
             fired |-> fired])

\* McpEventEmitter.emit -> EventEmitter.emit, with the registry the listeners
\* find: the calls of the listeners, the registry each of them found, the
\* registry they leave, and the wrappers of once() that fired
emit(ls, event, m, t) == emitAfter(ls, event, m, t, {})

\* The listeners that are left when the wrappers in fired have removed
\* themselves
Remaining(ls, fired) ==
    LET kept == {i \in 1..Len(ls) : i \notin fired}
        nth(k) == CHOOSE i \in kept : Cardinality({j \in kept : j <= i}) = k
    IN  [k \in 1..Cardinality(kept) |-> ls[nth(k)]]

\* McpEventEmitter.on: appended, also when the listener is already subscribed
on(ls, l) == Append(ls, l)

\* McpEventEmitter.once: the wrapper of the listener is appended
once(ls, l) == Append(ls, OnceWrapper(l))

LastIndexOf(ls, l) ==
    IF \E i \in 1..Len(ls) : ls[i] = l
    THEN CHOOSE i \in 1..Len(ls) :
            /\ ls[i] = l
            /\ \A j \in (i + 1)..Len(ls) : ls[j] # l
    ELSE 0

\* McpEventEmitter.off: removes the most recently added instance of the listener
off(ls, l) ==
    LET k == LastIndexOf(ls, l)
    IN  IF k = 0 THEN ls
        ELSE [i \in 1..(Len(ls) - 1) |-> IF i < k THEN ls[i] ELSE ls[i + 1]]

\* McpServer.notifyToolsChanged: the params of the notification pushed for an event
Notification(event) ==
    [method |-> "notifications/tools/list_changed",
     params |-> [type |-> event.type, toolName |-> event.toolName,
                 timestamp |-> event.timestamp]]

RECURSIVE PushedAlways(_, _)
PushedAlways(calls, conn) ==
    IF calls = <<>> THEN <<>>
    ELSE LET c == Head(calls)
         IN  (IF c.kind = "router" THEN <<Notification(c.event)>> ELSE <<>>)
             \o PushedAlways(Tail(calls), conn)

RECURSIVE PushedReversed(_, _)
PushedReversed(calls, conn) ==
    IF calls = <<>> THEN <<>>
    ELSE LET c == Head(calls)
         IN  PushedReversed(Tail(calls), conn)
             \o (IF c.kind = "router" /\ conn THEN <<Notification(c.event)>> ELSE <<>>)

\* McpServer.toolChangeListener over the calls of one registry call: it pushes
\* a notification for each event it receives while the server is connected.
RECURSIVE Pushed(_, _)
Pushed(calls, conn) ==
    IF calls = <<>> THEN <<>>
    ELSE LET c == Head(calls)
         IN  (IF c.kind = RouterListener /\ conn THEN <<Notification(c.event)>> ELSE <<>>)
             \o Pushed(Tail(calls), conn)

\* ---------------------------------------------------------------- the registry
registerLooksUpAfterSet(m, ls, tool, t) ==
    LET existingTool == MapHas(MapSet(m, tool), tool.name)
        event == RegisterEvent(existingTool, tool, t)
        r == emit(ls, event, MapSet(m, tool), t)
    IN  [tools |-> r.tools,
         events |-> <<event>>,
         calls |-> r.calls,
         seen |-> r.seen,
         fired |-> r.fired,
         ret |-> IF r.threw THEN "threw" ELSE "void"]

\* ToolRegistry.register
register(m, ls, tool, t) ==
    LET existingTool == MapHas(m, tool.name)
        event == RegisterEvent(existingTool, tool, t)
        r == emit(ls, event, MapSet(m, tool), t)
    IN  [tools |-> r.tools,
         events |-> <<event>>,
         calls |-> r.calls,
         seen |-> r.seen,
         fired |-> r.fired,
         ret |-> IF r.threw THEN "threw" ELSE "void"]

\* ToolRegistry.unregister
unregister(m, ls, toolName, t) ==
    IF ~MapHas(m, toolName)
    THEN [tools |-> m, events |-> <<>>, calls |-> <<>>, seen |-> <<>>, fired |-> {},
          ret |-> "false"]
    ELSE LET event == RemovedEvent(toolName, t, "Tool unregistered")
             r == emit(ls, event, MapDelete(m, toolName), t)
         IN  [tools |-> r.tools,
              events |-> <<event>>,
              calls |-> r.calls,
              seen |-> r.seen,
              fired |-> r.fired,
              ret |-> IF r.threw THEN "threw" ELSE "true"]

\* The forEach of ToolRegistry.clear: one emit per name, left by the first
\* exception of a listener.
RECURSIVE clearEmit(_, _, _, _)
clearEmit(toolNames, ls, t, acc) ==
    IF toolNames = <<>> \/ acc.threw THEN acc
    ELSE LET event == RemovedEvent(Head(toolNames), t, "Registry cleared")
             r == emitAfter(ls, event, acc.tools, t, acc.fired)
         IN  clearEmit(Tail(toolNames), ls, t,
                       [events |-> Append(acc.events, event),
                        calls |-> acc.calls \o r.calls,
                        seen |-> acc.seen \o r.seen,
                        threw |-> r.threw,
                        tools |-> r.tools,
                        fired |-> r.fired])

\* ToolRegistry.clear
clear(m, ls, t) ==
    LET r == clearEmit(getNames(m), ls, t,
                       [events |-> <<>>, calls |-> <<>>, seen |-> <<>>, threw |-> FALSE,
                        tools |-> <<>>, fired |-> {}])
    IN  [tools |-> r.tools,
         events |-> r.events,
         calls |-> r.calls,
         seen |-> r.seen,
         fired |-> r.fired,
         ret |-> IF r.threw THEN "threw" ELSE "void"]

\* The record of a registry call: the registry and the listeners it found, what
\* it returned, the events it emitted, the listener calls and the notifications
\* the router pushed.
NoCall == [op |-> "none", arg |-> "none", before |-> <<>>, subscribed |-> <<>>,
           ret |-> "none", events |-> <<>>, calls |-> <<>>, seen |-> <<>>,
           pushed |-> <<>>]

Called(op, arg, r) ==
    [op |-> op, arg |-> arg, before |-> tools, subscribed |-> listeners,
     ret |-> r.ret, events |-> r.events,
     calls |-> r.calls, seen |-> r.seen, pushed |-> Pushed(r.calls, connected)]

\* ---------------------------------------------------------------- JSON values
\* A string of which only the length matters, a string literal, a number
\* (Half(n) is n + 1/2), a boolean, and a key the object does not have.
Undefined == [t |-> "undefined"]
Str(n) == [t |-> "string", len |-> n]
Lit(s) == [t |-> "string", s |-> s]
Num(n) == [t |-> "number", n |-> n, int |-> TRUE]
Half(n) == [t |-> "number", n |-> n, int |-> FALSE]
Bool(b) == [t |-> "boolean", b |-> b]

\* input[key] of a JavaScript object
Field(input, key) == IF key \in DOMAIN input THEN input[key] ELSE Undefined

\* ---------------------------------------------------------------- schemas.ts
TitleMax == 100
MessageMax == 500
SubtitleMax == 100
TimeoutMin == 1
TimeoutMax == 60
TimeoutDefault == 10

UrgencyValues == {"low", "normal", "critical"}
SoundNames == {"Basso", "Blow", "Bottle", "Frog", "Funk", "Glass", "Hero", "Morse",
               "Ping", "Pop", "Purr", "Sosumi", "Submarine", "Tink"}

\* The strings of the model that /^\/.*$/ matches, and those z.string().url() accepts
AbsolutePaths == {"/icon.png", "/image.png", "/sound.aiff"}
ValidUrls == {"https://example.com"}
MatchesAbsolutePath(s) == s \in AbsolutePaths
IsUrl(s) == s \in ValidUrls

Issue(code, path, message) == [code |-> code, path |-> path, message |-> message]

\* z.string().min(lo, loMsg).max(hi, hiMsg), .optional() when opt
ZString(path, v, lo, loMsg, hi, hiMsg, opt) ==
    IF v.t = "undefined"
    THEN IF opt THEN <<>> ELSE <<Issue("invalid_type", path, "Required")>>
    ELSE IF v.t # "string"
    THEN <<Issue("invalid_type", path, "Expected string, received " \o v.t)>>
    ELSE (IF v.len < lo
          THEN <<[code |-> "too_small", path |-> path, message |-> loMsg, minimum |-> lo]>>
          ELSE <<>>)
         \o
         (IF v.len > hi
          THEN <<[code |-> "too_big", path |-> path, message |-> hiMsg, maximum |-> hi]>>
          ELSE <<>>)

\* z.enum(['low', 'normal', 'critical']).default('normal')
ZUrgency(v) ==
    IF v.t = "undefined" THEN <<>>
    ELSE IF v.t # "string"
    THEN <<Issue("invalid_type", "urgency",
                 "Expected 'low' | 'normal' | 'critical', received " \o v.t)>>
    ELSE IF v.s \notin UrgencyValues
    THEN <<Issue("invalid_enum_value", "urgency",
                 "Invalid enum value. Expected 'low' | 'normal' | 'critical', received '"
                    \o v.s \o "'")>>
    ELSE <<>>

\* z.union([z.boolean(), z.enum([...]), z.string().regex(/^\/.*$/)]).default(true)
ZSound(v) ==
    IF v.t = "undefined" THEN <<>>
    ELSE IF v.t = "boolean" THEN <<>>
    ELSE IF v.t = "string" /\ (v.s \in SoundNames \/ MatchesAbsolutePath(v.s)) THEN <<>>
    ELSE <<Issue("invalid_union", "sound", "Invalid input")>>

\* z.number().int().min(1).max(60).default(10)
ZTimeout(v) ==
    IF v.t = "undefined" THEN <<>>
    ELSE IF v.t # "number"
    THEN <<Issue("invalid_type", "timeout", "Expected number, received " \o v.t)>>
    ELSE (IF ~v.int
          THEN <<Issue("invalid_type", "timeout", "Expected integer, received float")>>
          ELSE <<>>)
         \o
         (IF v.n < TimeoutMin
          THEN <<[code |-> "too_small", path |-> "timeout",
                  message |-> "Number must be greater than or equal to 1",
                  minimum |-> TimeoutMin]>>
          ELSE <<>>)
         \o
         (IF v.n > TimeoutMax \/ (v.n = TimeoutMax /\ ~v.int)
          THEN <<[code |-> "too_big", path |-> "timeout",
                  message |-> "Number must be less than or equal to 60",
                  maximum |-> TimeoutMax]>>
          ELSE <<>>)

\* z.string().regex(/^\/.*$/, msg).optional()
ZPath(path, v, msg) ==
    IF v.t = "undefined" THEN <<>>
    ELSE IF v.t # "string"
    THEN <<Issue("invalid_type", path, "Expected string, received " \o v.t)>>
    ELSE IF ~MatchesAbsolutePath(v.s)
    THEN <<Issue("invalid_string", path, msg)>>
    ELSE <<>>

\* z.string().url(msg).optional()
ZUrl(path, v, msg) ==
    IF v.t = "undefined" THEN <<>>
    ELSE IF v.t # "string"
    THEN <<Issue("invalid_type", path, "Expected string, received " \o v.t)>>
    ELSE IF ~IsUrl(v.s)
    THEN <<Issue("invalid_string", path, msg)>>
    ELSE <<>>

\* The issues of NotificationInputSchema, in the order of the keys of the shape
NotificationIssues(input) ==
    ZString("title", Field(input, "title"), 1, "Title cannot be empty",
            TitleMax, "Title must be 100 characters or less", FALSE)
    \o ZString("message", Field(input, "message"), 1, "Message cannot be empty",
               MessageMax, "Message must be 500 characters or less", FALSE)
    \o ZString("subtitle", Field(input, "subtitle"), 0, "",
               SubtitleMax, "Subtitle must be 100 characters or less", TRUE)
    \o ZUrgency(Field(input, "urgency"))
    \o ZSound(Field(input, "sound"))
    \o ZTimeout(Field(input, "timeout"))
    \o ZPath("icon", Field(input, "icon"), "Icon must be an absolute path")
    \o ZPath("contentImage", Field(input, "contentImage"),
             "Content image must be an absolute path")
    \o ZUrl("open", Field(input, "open"), "Open must be a valid URL")

NotificationKeys ==
    {"title", "message", "subtitle", "urgency", "sound", "timeout", "icon",
     "contentImage", "open"}

NotificationParsedDefaultsFirst(input) ==
    [k \in (DOMAIN input \cap NotificationKeys) \cup {"urgency", "sound", "timeout"} |->
        IF k = "urgency" THEN Lit("normal")
        ELSE IF k = "sound" THEN Bool(TRUE)
        ELSE IF k = "timeout" THEN Num(TimeoutDefault)
        ELSE input[k]]

\* The value NotificationInputSchema.parse returns: unknown keys stripped,
\* defaults applied.
NotificationParsed(input) ==
    [k \in (DOMAIN input \cap NotificationKeys) \cup {"urgency", "sound", "timeout"} |->
        IF Field(input, k).t # "undefined" THEN input[k]
        ELSE IF k = "urgency" THEN Lit("normal")
        ELSE IF k = "sound" THEN Bool(TRUE)
        ELSE IF k = "timeout" THEN Num(TimeoutDefault)
        ELSE Undefined]

\* ---------------------------------------------------------------- handlers
\* config/app.ts APP_CONFIG.appName
appName == "DingDong Notification Server"

\* What a call of a handler does before its promise settles or suspends
Return(value) == [kind |-> "return", value |-> value]
Throw(name, message) == [kind |-> "throw", error |-> [name |-> name, message |-> message]]
AwaitWithoutTimer(options, ts) ==
    [kind |-> "await", options |-> options, ts |-> ts, timer |-> "none"]

\* handleNotification at its await: notifier.notify has been called with the
\* options and the timer of Promise.race is armed
Await(options, ts) ==
    [kind |-> "await", options |-> options, ts |-> ts, timer |-> "armed"]

\* ZodError.message: the issues, serialized
RECURSIVE ZodMessage(_)
ZodMessage(issues) ==
    IF issues = <<>> THEN ""
    ELSE "{" \o Head(issues).path \o ": " \o Head(issues).message \o "}"
         \o ZodMessage(Tail(issues))

\* hello-world.ts handleHelloWorld
handleHelloWorld(input) == Return([message |-> "Hello from " \o appName \o "!"])

\* health.ts handleHealth
handleHealth(input) == Return([status |-> "green"])

\* z.string().min(1, 'Text cannot be empty') of EchoInputSchema
EchoIssues(input) ==
    LET v == Field(input, "text")
    IN  IF v.t = "undefined" THEN <<Issue("invalid_type", "text", "Required")>>
        ELSE IF v.t # "string"
        THEN <<Issue("invalid_type", "text", "Expected string, received " \o v.t)>>
        ELSE IF v.len < 1
        THEN <<[code |-> "too_small", path |-> "text",
                message |-> "Text cannot be empty", minimum |-> 1]>>
        ELSE <<>>

\* echo.ts handleEcho
handleEcho(input) ==
    IF EchoIssues(input) # <<>>
    THEN Throw("ZodError", ZodMessage(EchoIssues(input)))
    ELSE Return([echo |-> input["text"]])

\* dynamic-example.ts calculatorTool.handler (the quotients of the model are exact)
calculatorHandler(args) ==
    LET operation == Field(args, "operation")
        a == Field(args, "a").n
        b == Field(args, "b").n
    IN  IF operation = Lit("add") THEN Return([result |-> a + b])
        ELSE IF operation = Lit("subtract") THEN Return([result |-> a - b])
        ELSE IF operation = Lit("multiply") THEN Return([result |-> a * b])
        ELSE IF operation = Lit("divide")
        THEN IF b = 0 THEN Throw("Error", "Division by zero is not allowed")
             ELSE Return([result |-> a \div b])
        ELSE Throw("Error", "Unknown operation: " \o operation.s)

\* The first letter of a field name in upper case
Capitalize(field) ==
    CASE field = "title" -> "Title"
      [] field = "message" -> "Message"
      [] field = "subtitle" -> "Subtitle"
      [] field = "urgency" -> "Urgency"
      [] field = "sound" -> "Sound"
      [] field = "timeout" -> "Timeout"
      [] field = "icon" -> "Icon"
      [] field = "contentImage" -> "ContentImage"
      [] field = "open" -> "Open"
      [] OTHER -> field

\* message.replace('String', 'Text'): of the messages of the schema only zod's
\* own messages for strings hold 'String'
ReplaceStringByText(message) ==
    CASE message = "String must contain at most 100 character(s)"
            -> "Text must contain at most 100 character(s)"
      [] OTHER -> message

ValidationMessageOfLastIssue(issues) ==
    IF issues = <<>> THEN "Failed to send notification"
    ELSE LET lastError == issues[Len(issues)]
         IN  IF lastError.code = "too_small" /\ lastError.minimum = 1
             THEN Capitalize(lastError.path) \o " is required and cannot be empty"
             ELSE IF lastError.code = "too_big"
             THEN ReplaceStringByText(lastError.message)
             ELSE lastError.message

\* notification.ts handleNotification, the catch of a ZodError
ValidationMessage(issues) ==
    IF issues = <<>> THEN "Failed to send notification"
    ELSE LET firstError == issues[1]
         IN  IF firstError.code = "too_small" /\ firstError.minimum = 1
             THEN Capitalize(firstError.path) \o " is required and cannot be empty"
             ELSE IF firstError.code = "too_big"
             THEN ReplaceStringByText(firstError.message)
             ELSE firstError.message

\* The probes of handleNotification that each error message of the notifier holds
Substrings(message) ==
    CASE message = "Permission denied by user" -> {"Permission denied"}
      [] message = "Not authorized: authorization required" -> {"authorization"}
      [] message = "Request timeout" -> {"timeout"}
      [] message = "Notification service not available" -> {"not available"}
      [] message = "NotificationCenter failed" -> {"NotificationCenter"}
      [] message = "rate limit exceeded" -> {"rate limit"}
      [] message = "too many notifications" -> {"too many"}
      [] message = "Permission denied after timeout" -> {"Permission denied", "timeout"}
      [] message = "too many timeouts, not available" -> {"too many", "timeout", "not available"}
      [] OTHER -> {}

includes(message, probe) == probe \in Substrings(message)

ErrorMessageTimeoutFirst(message) ==
    IF includes(message, "timeout")
    THEN "Notification timeout - the notification system may be busy. Please try again"
    ELSE IF includes(message, "Permission denied") \/ includes(message, "authorization")
    THEN "Notification permission denied. Please allow notifications in System Preferences > Notifications > Terminal (or your app)"
    ELSE IF includes(message, "not available") \/ includes(message, "NotificationCenter")
    THEN "macOS Notification Center is not available. Please check that you are running on macOS"
    ELSE IF includes(message, "rate limit") \/ includes(message, "too many")
    THEN "Too many notifications sent recently. Please wait a moment before sending more"
    ELSE "Notification error: " \o message

\* notification.ts handleNotification, the catch of an Error of the notifier
ErrorMessage(message) ==
    IF includes(message, "Permission denied") \/ includes(message, "authorization")
    THEN "Notification permission denied. Please allow notifications in System Preferences > Notifications > Terminal (or your app)"
    ELSE IF includes(message, "timeout")
    THEN "Notification timeout - the notification system may be busy. Please try again"
    ELSE IF includes(message, "not available") \/ includes(message, "NotificationCenter")
    THEN "macOS Notification Center is not available. Please check that you are running on macOS"
    ELSE IF includes(message, "rate limit") \/ includes(message, "too many")
    THEN "Too many notifications sent recently. Please wait a moment before sending more"
    ELSE "Notification error: " \o message

\* notification.ts handleNotification: notificationOptions
NotifyOptions(v) ==
    [k \in {"title", "message", "sound", "timeout", "urgency", "wait"}
           \cup {f \in {"subtitle", "icon", "contentImage", "open"} :
                    /\ Field(v, f).t = "string"
                    /\ Field(v, f) # Str(0)} |->
        IF k = "wait" THEN Bool(FALSE) ELSE v[k]]

\* const output = { success: true, notificationId, timestamp }
SuccessOutput(ts) == [success |-> TRUE, notificationId |-> "notification-id", timestamp |-> ts]
FailureOutputWithId(message, ts) ==
    [success |-> FALSE, notificationId |-> "notification-id", error |-> message,
     timestamp |-> ts]

\* const output = { success: false, error: errorMessage, timestamp: Date.now() }
FailureOutput(message, ts) == [success |-> FALSE, error |-> message, timestamp |-> ts]

handleNotificationRethrows(input, t) ==
    IF NotificationIssues(input) # <<>>
    THEN Throw("ZodError", ZodMessage(NotificationIssues(input)))
    ELSE Await(NotifyOptions(NotificationParsed(input)), t)

\* notification.ts handleNotification up to the await of Promise.race
handleNotification(input, t) ==
    IF NotificationIssues(input) # <<>>
    THEN Return(FailureOutput(ValidationMessage(NotificationIssues(input)), t))
    ELSE Await(NotifyOptions(NotificationParsed(input)), t)

\* tool.handler(args || {})
Invoke(handler, args, t) ==
    CASE handler = "handleHelloWorld" -> handleHelloWorld(args)
      [] handler = "handleEcho" -> handleEcho(args)
      [] handler = "handleHealth" -> handleHealth(args)
      [] handler = "handleNotification" -> handleNotification(args, t)
      [] handler = "calculatorHandler" -> calculatorHandler(args)

\* ---------------------------------------------------------------- resources
\* prompts.ts promptResources
promptResources ==
    <<[uri |-> "prompt://welcome", name |-> "Welcome",
       description |-> "Welcome message and usage instructions for the MCP server",
       mimeType |-> "text/plain"]>>

\* prompts.ts getWelcomePrompt, once readFile has settled
getWelcomePrompt(fileRead) ==
    IF fileRead THEN "welcome.txt" ELSE "Welcome to the " \o appName \o "!"

\* ---------------------------------------------------------------- the process
\* The process runs, is between the await of a stop() and its process.exit, or
\* has exited with a code
Running == [state |-> "running", code |-> 0, cause |-> "none"]
Stopping == [state |-> "stopping", code |-> 0, cause |-> "none"]
Exited(code, cause) == [state |-> "exited", code |-> code, cause |-> cause]

\* The transport has not been started and Server.close() has not been called
NotStarted == [started |-> FALSE, closeCalls |-> 0, lastClose |-> [ret |-> "none"]]

serverCloseThrowsWhenDetached(conn) ==
    [connected |-> FALSE, ret |-> IF conn THEN "ok" ELSE "threw", detached |-> conn]

\* Server.close() of the SDK: await this.transport?.close(); the transport's
\* onclose detaches it. Without a transport it does nothing.
serverClose(conn) == [connected |-> FALSE, ret |-> "ok", detached |-> conn]

\* ---------------------------------------------------------------- the router
\* JSON.stringify(result, null, 2)
Stringify(value) == [json |-> value]

Result(payload) == [kind |-> "result", result |-> payload]
Error(message) == [kind |-> "error", message |-> message]

\* `${error}` of an Error
ErrorToString(error) == error.name \o ": " \o error.message

ToolResult(value) == Result([content |-> <<[type |-> "text", text |-> Stringify(value)]>>])

Free == [pc |-> "free"]
Done(response, cb, timer) ==
    [pc |-> "done", outcome |-> response.kind, nresp |-> 1, cb |-> cb, timer |-> timer]

NoResponse ==
    [id |-> 0, method |-> "none", params |-> Undefined, handler |-> "none",
     notified |-> FALSE, response |-> [kind |-> "none"]]

Responded(id, method, params, handler, notified, response) ==
    [id |-> id, method |-> method, params |-> params, handler |-> handler,
     notified |-> notified, response |-> response]

ListedStatic(m) ==
    [i \in 1..Len(builtinTools) |->
        [name |-> builtinTools[i].name, description |-> builtinTools[i].description,
         inputSchema |-> builtinTools[i].inputSchema]]

\* The ListToolsRequestSchema handler: registryTools.map(...)
Listed(m) ==
    [i \in 1..Len(getAll(m)) |->
        [name |-> m[i].name, description |-> m[i].description,
         inputSchema |-> m[i].inputSchema]]

ListTools(id) ==
    /\ proc = Running
    /\ connected
    /\ requests[id].pc = "free"
    /\ LET response == Result([tools |-> Listed(tools)])
       IN  /\ requests' = [requests EXCEPT ![id] = Done(response, "none", "none")]
           /\ lastResponse' = Responded(id, "tools/list", Undefined, "none", FALSE, response)
    /\ UNCHANGED <<tools, listeners, lastCall, now, connected, lifecycle, proc, host>>

\* args || {}
OrEmpty(args) == IF args = Undefined THEN <<>> ELSE args

LookupOrFirst(m, name) == IF m = <<>> THEN 0 ELSE IF MapHas(m, name) THEN IndexOf(m, name) ELSE 1

\* toolRegistry.get(name) of the CallToolRequestSchema handler: 0 when absent
Lookup(m, name) == IndexOf(m, name)

CallFailedAsResult(error) == ToolResult([success |-> FALSE, error |-> error.message])

\* The catch of the CallToolRequestSchema handler
CallFailed(error) == Error("Tool execution failed: " \o ErrorToString(error))

\* The CallToolRequestSchema handler, up to the first suspension of the tool's handler
CallTool(id, name, arguments) ==
    /\ proc = Running
    /\ connected
    /\ requests[id].pc = "free"
    /\ LET params == [name |-> name, arguments |-> arguments]
           i == Lookup(tools, name)
       IN  IF i = 0
           THEN LET response == Error("Unknown tool: " \o name)
                IN  /\ requests' = [requests EXCEPT ![id] = Done(response, "none", "none")]
                    /\ lastResponse' =
                         Responded(id, "tools/call", params, "none", FALSE, response)
           ELSE LET handler == tools[i].handler
                    o == Invoke(handler, OrEmpty(arguments), now)
                IN  CASE o.kind = "return" ->
                            /\ requests' = [requests EXCEPT
                                 ![id] = Done(ToolResult(o.value), "none", "none")]
                            /\ lastResponse' = Responded(id, "tools/call", params, handler,
                                                         FALSE, ToolResult(o.value))
                      [] o.kind = "throw" ->
                            /\ requests' = [requests EXCEPT
                                 ![id] = Done(CallFailed(o.error), "none", "none")]
                            /\ lastResponse' = Responded(id, "tools/call", params, handler,
                                                         FALSE, CallFailed(o.error))
                      [] o.kind = "await" ->
                            /\ requests' = [requests EXCEPT ![id] =
                                 [pc |-> "awaiting", method |-> "tools/call",
                                  params |-> params, handler |-> handler,
                                  options |-> o.options, ts |-> o.ts,
                                  cb |-> "pending", timer |-> o.timer, nresp |-> 0]]
                            /\ UNCHANGED lastResponse
    /\ UNCHANGED <<tools, listeners, lastCall, now, connected, lifecycle, proc, host>>

SettleOldest(id, output, cb, timer, reported) ==
    LET j == CHOOSE j \in 1..MaxReq :
                /\ requests[j].pc = "awaiting"
                /\ \A k \in 1..MaxReq : requests[k].pc = "awaiting" => j <= k
        r == requests[j]
        response == ToolResult(output)
    IN  /\ requests' = [requests EXCEPT
                            ![id] = Done(response, cb, timer) @@ [reported |-> reported]]
        /\ lastResponse' = Responded(j, r.method, r.params, r.handler, TRUE, response)

\* The settlement of Promise.race in handleNotification and the rest of the
\* handler and of the CallToolRequestSchema handler; reported is the error the
\* notifier's callback was called with ("" when none, "none" when the timer won)
Settle(id, output, cb, timer, reported) ==
    LET r == requests[id]
        response == ToolResult(output)
    IN  /\ requests' = [requests EXCEPT
                            ![id] = Done(response, cb, timer) @@ [reported |-> reported]]
        /\ lastResponse' = Responded(id, r.method, r.params, r.handler, TRUE, response)

NotifierCallbackSettlesAgain(id, error) ==
    /\ proc = Running
    /\ requests[id].pc \in {"awaiting", "done"}
    /\ requests[id].cb = "pending"
    /\ IF requests[id].pc = "awaiting"
       THEN Settle(id,
                   IF error = "" THEN SuccessOutput(requests[id].ts)
                   ELSE FailureOutput(ErrorMessage(error), now),
                   "fired", requests[id].timer, error)
       ELSE /\ requests' = [requests EXCEPT ![id].cb = "fired", ![id].nresp = @ + 1]
            /\ lastResponse' =
                    [lastResponse EXCEPT
                        !.id = id,
                        !.response = ToolResult(IF error = "" THEN SuccessOutput(now)
                                                ELSE FailureOutput(ErrorMessage(error), now))]
    /\ UNCHANGED <<tools, listeners, lastCall, now, connected, lifecycle, proc, host>>

\* The callback of notifier.notify: with an error message, or with none
NotifierCallback(id, error) ==
    /\ proc = Running
    /\ requests[id].pc \in {"awaiting", "done"}
    /\ requests[id].cb = "pending"
    /\ IF requests[id].pc = "awaiting"
       THEN Settle(id,
                   IF error = "" THEN SuccessOutput(requests[id].ts)
                   ELSE FailureOutput(ErrorMessage(error), now),
                   "fired", requests[id].timer, error)
       ELSE /\ requests' = [requests EXCEPT ![id].cb = "fired"]
            /\ UNCHANGED lastResponse
    /\ UNCHANGED <<tools, listeners, lastCall, now, connected, lifecycle, proc, host>>

TimerRejects(ts) == FailureOutput(ErrorMessage("Request timeout"), ts)

\* setTimeout(() => resolve(true), 3000): the race is won without an error and
\* the handler goes on to its success output
TimerResolves(ts) == SuccessOutput(ts)

NotificationTimeoutLooksUpAgain(id) ==
    /\ proc = Running
    /\ requests[id].pc \in {"awaiting", "done"}
    /\ requests[id].timer = "armed"
    /\ IF requests[id].pc = "awaiting"
       THEN IF Lookup(tools, requests[id].params.name) = 0
            THEN LET r == requests[id]
                     response == Error("Unknown tool: " \o r.params.name)
                 IN  /\ requests' = [requests EXCEPT
                            ![id] = Done(response, r.cb, "fired") @@ [reported |-> "none"]]
                     /\ lastResponse' = Responded(id, r.method, r.params, "none", TRUE,
                                                  response)
            ELSE Settle(id, TimerResolves(requests[id].ts), requests[id].cb, "fired", "none")
       ELSE /\ requests' = [requests EXCEPT ![id].timer = "fired"]
            /\ UNCHANGED lastResponse
    /\ UNCHANGED <<tools, listeners, lastCall, now, connected, lifecycle, proc, host>>

\* The setTimeout of 3000 ms in handleNotification
NotificationTimeout(id) ==
    /\ proc = Running
    /\ requests[id].pc \in {"awaiting", "done"}
    /\ requests[id].timer = "armed"
    /\ IF requests[id].pc = "awaiting"
       THEN Settle(id, TimerResolves(requests[id].ts), requests[id].cb, "fired", "none")
       ELSE /\ requests' = [requests EXCEPT ![id].timer = "fired"]
            /\ UNCHANGED lastResponse
    /\ UNCHANGED <<tools, listeners, lastCall, now, connected, lifecycle, proc, host>>

\* The ListResourcesRequestSchema handler
ListResources(id) ==
    /\ proc = Running
    /\ connected
    /\ requests[id].pc = "free"
    /\ LET response == Result([resources |-> promptResources])
       IN  /\ requests' = [requests EXCEPT ![id] = Done(response, "none", "none")]
           /\ lastResponse' =
                Responded(id, "resources/list", Undefined, "none", FALSE, response)
    /\ UNCHANGED <<tools, listeners, lastCall, now, connected, lifecycle, proc, host>>

\* resource.mimeType || 'text/plain'
OrTextPlain(mimeType) == IF mimeType \in {"", "undefined"} THEN "text/plain" ELSE mimeType

ReadResourceNullAsEmpty(id, uri) ==
    /\ proc = Running
    /\ connected
    /\ requests[id].pc = "free"
    /\ IF uri = "prompt://welcome"
       THEN /\ requests' = [requests EXCEPT ![id] =
                 [pc |-> "reading", method |-> "resources/read",
                  params |-> [uri |-> uri], handler |-> "none",
                  cb |-> "none", timer |-> "none", nresp |-> 0]]
            /\ UNCHANGED lastResponse
       ELSE LET response == Result([contents |-> <<>>])
            IN  /\ requests' = [requests EXCEPT ![id] = Done(response, "none", "none")]
                /\ lastResponse' = Responded(id, "resources/read", [uri |-> uri], "none",
                                             FALSE, response)
    /\ UNCHANGED <<tools, listeners, lastCall, now, connected, lifecycle, proc, host>>

\* The ReadResourceRequestSchema handler up to the readFile of getWelcomePrompt
ReadResource(id, uri) ==
    /\ proc = Running
    /\ connected
    /\ requests[id].pc = "free"
    /\ IF uri = "prompt://welcome"
       THEN /\ requests' = [requests EXCEPT ![id] =
                 [pc |-> "reading", method |-> "resources/read",
                  params |-> [uri |-> uri], handler |-> "none",
                  cb |-> "none", timer |-> "none", nresp |-> 0]]
            /\ UNCHANGED lastResponse
       ELSE LET response == Error("Resource not found: " \o uri)
            IN  /\ requests' = [requests EXCEPT ![id] = Done(response, "none", "none")]
                /\ lastResponse' = Responded(id, "resources/read", [uri |-> uri], "none",
                                             FALSE, response)
    /\ UNCHANGED <<tools, listeners, lastCall, now, connected, lifecycle, proc, host>>

ReadSettledCached(id, fileRead) ==
    /\ proc = Running
    /\ requests[id].pc = "reading"
    /\ LET r == requests[id]
           cached == /\ lastResponse.method = "resources/read"
                     /\ lastResponse.response.kind = "result"
           resource == [content |-> IF cached
                                    THEN lastResponse.response.result.contents[1].text
                                    ELSE getWelcomePrompt(fileRead),
                        mimeType |-> "text/plain"]
           response == Result([contents |-> <<[uri |-> r.params.uri,
                                               mimeType |-> OrTextPlain(resource.mimeType),
                                               text |-> resource.content]>>])
       IN  /\ requests' = [requests EXCEPT
                ![id] = Done(response, "none", "none") @@ [fileRead |-> fileRead]]
           /\ lastResponse' = Responded(id, r.method, r.params, "none", FALSE, response)
    /\ UNCHANGED <<tools, listeners, lastCall, now, connected, lifecycle, proc, host>>

\* readFile settles, and the rest of getResource and of the handler; the slot
\* keeps whether the file could be read
ReadSettled(id, fileRead) ==
    /\ proc = Running
    /\ requests[id].pc = "reading"
    /\ LET r == requests[id]
           resource == [content |-> getWelcomePrompt(fileRead), mimeType |-> "text/plain"]
           response == Result([contents |-> <<[uri |-> r.params.uri,
                                               mimeType |-> OrTextPlain(resource.mimeType),
                                               text |-> resource.content]>>])
       IN  /\ requests' = [requests EXCEPT
                ![id] = Done(response, "none", "none") @@ [fileRead |-> fileRead]]
           /\ lastResponse' = Responded(id, r.method, r.params, "none", FALSE, response)
    /\ UNCHANGED <<tools, listeners, lastCall, now, connected, lifecycle, proc, host>>

\* The client has its response and uses the correlation id again
Forget(id) ==
    /\ proc = Running
    /\ requests[id].pc = "done"
    /\ requests' = [requests EXCEPT ![id] = Free]
    /\ UNCHANGED <<tools, listeners, lastCall, now, connected, lastResponse, lifecycle, proc, host>>

\* Server.connect(transport) of StdioTransport.start / HttpTransport.start: the
\* transport made in the constructor is started, once
Connect ==
    /\ proc = Running
    /\ ~connected
    /\ ~lifecycle.started
    /\ connected' = TRUE
    /\ lifecycle' = [lifecycle EXCEPT !.started = TRUE]
    /\ UNCHANGED <<tools, listeners, lastCall, now, requests, lastResponse, proc, host>>

\* McpServer.close(): this.server.close() and nothing else
Close ==
    /\ proc = Running
    /\ lifecycle.closeCalls < MaxClose
    /\ LET r == serverClose(connected)
       IN  /\ connected' = r.connected
           /\ lifecycle' = [lifecycle EXCEPT
                                !.closeCalls = @ + 1,
                                !.lastClose = [ret |-> r.ret, detached |-> r.detached]]
    /\ UNCHANGED <<tools, listeners, lastCall, now, requests, lastResponse, proc, host>>

\* StdioTransport.stop up to its await, called by a handler of SIGINT / SIGTERM:
\* the handler installed by start() and the shutdown of index.ts both call it
StdioStop ==
    /\ proc \in {Running, Stopping}
    /\ lifecycle.started
    /\ lifecycle.closeCalls < MaxClose
    /\ LET r == serverClose(connected)
       IN  /\ connected' = r.connected
           /\ lifecycle' = [lifecycle EXCEPT
                                !.closeCalls = @ + 1,
                                !.lastClose = [ret |-> r.ret, detached |-> r.detached]]
           /\ proc' = IF r.ret = "ok" /\ proc.cause = "none" THEN Stopping
                      ELSE [Stopping EXCEPT !.cause = "close failed"]
    /\ UNCHANGED <<tools, listeners, lastCall, now, requests, lastResponse, host>>

\* StdioTransport.stop after its await: process.exit(0), or process.exit(1) in
\* the catch
StdioExit ==
    /\ proc.state = "stopping"
    /\ proc' = IF proc.cause = "none" THEN Exited(0, "stop") ELSE Exited(1, "stop")
    /\ UNCHANGED <<tools, listeners, lastCall, now, connected, requests, lastResponse,
                   lifecycle, host>>

\* The promise of this.server.notification(...) of the last registry call is
\* rejected (transport.send fails): nothing awaits or catches it, and the
\* unhandledRejection handler of index.ts calls process.exit(1)
NotificationSendFails ==
    /\ proc = Running
    /\ lastCall.pushed # <<>>
    /\ proc' = Exited(1, "unhandledRejection")
    /\ UNCHANGED <<tools, listeners, lastCall, now, connected, requests, lastResponse,
                   lifecycle, host>>

\* ---------------------------------------------------------------- the command line
\* parseInt(text, 10): a --port value is the integer its leading digits spell,
\* if it has any, and the characters that follow them
NaN == [t |-> "nan"]
PortText(hasLead, lead, rest) == [hasLead |-> hasLead, lead |-> lead, rest |-> rest]
parseInt(text) == IF text.hasLead THEN Num(text.lead) ELSE NaN

PortMin == 1
PortMax == 65535
GraceMs == 1000
ForceMs == 3000

\* isNaN(port) || port < 1 || port > 65535
PortOutOfRange(port) == port.t = "nan" \/ port.n < PortMin \/ port.n > PortMax

\* ServerConfigSchema.parse of new ConfigManager({transport, port, host}) succeeds
ServerConfigValid(port) ==
    /\ port.t = "number"
    /\ port.int
    /\ port.n >= PortMin
    /\ port.n <= PortMax

PortDefault == 3000

\* { ...base, ...updates }: the keys of updates win, also with the value
\* undefined
Spread(base, updates) ==
    [k \in DOMAIN base \cup DOMAIN updates |->
        IF k \in DOMAIN updates THEN updates[k] ELSE base[k]]

\* ServerConfigSchema.parse: whether it returns, and the value it returns
\* (defaults applied, unknown keys stripped)
ServerConfigParse(input) ==
    LET transport == Field(input, "transport")
        port == Field(input, "port")
        h == Field(input, "host")
    IN  [ok |-> /\ transport.t = "string"
                /\ transport \in {Lit("stdio"), Lit("http")}
                /\ port.t = "undefined" \/ ServerConfigValid(port)
                /\ h.t \in {"undefined", "string"},
         value |-> [transport |-> transport,
                    port |-> IF port.t = "undefined" THEN Num(PortDefault) ELSE port,
                    host |-> IF h.t = "undefined" THEN Lit("localhost") ELSE h]]

\* No ConfigManager has been constructed
NoConfig == [stored |-> Undefined, op |-> "none", args |-> Undefined, ret |-> "none"]

\* The record of a call of ConfigManager: the configuration it leaves, the
\* arguments, and what the call returned
ConfigCalled(stored, op, args, ret) ==
    [stored |-> stored, op |-> op, args |-> args, ret |-> ret]

\* new ConfigManager(initialConfig)
newConfigManager(initialConfig) ==
    LET r == ServerConfigParse(
                Spread([transport |-> Lit("stdio"), port |-> Num(PortDefault),
                        host |-> Lit("localhost")], initialConfig))
    IN  IF r.ok THEN ConfigCalled(r.value, "new", initialConfig, "void")
        ELSE ConfigCalled(Undefined, "new", initialConfig, "threw")

updateConfigAssignsFirst(config, updates) ==
    LET r == ServerConfigParse(Spread(config.stored, updates))
    IN  ConfigCalled(Spread(config.stored, updates), "updateConfig", updates,
                     IF r.ok THEN "void" ELSE "threw")

\* ConfigManager.updateConfig
updateConfig(config, updates) ==
    LET r == ServerConfigParse(Spread(config.stored, updates))
    IN  IF r.ok THEN ConfigCalled(r.value, "updateConfig", updates, "void")
        ELSE ConfigCalled(config.stored, "updateConfig", updates, "threw")

\* ConfigManager.getConfig
getConfig(config) == [k \in DOMAIN config.stored |-> config.stored[k]]

Unarmed == [armed |-> FALSE, due |-> 0]
Armed(due) == [armed |-> TRUE, due |-> due]
NoExchange == [method |-> "none", fate |-> "none", headersSent |-> FALSE, statuses |-> <<>>]

\* program.parse() has run and the action has not: no transport exists yet
Parsed ==
    [phase |-> "parsed", transport |-> "none", portText |-> PortText(FALSE, 0, ""),
     startOk |-> TRUE, server |-> "none", conns |-> 0, stop |-> "none",
     resolvedBy |-> "none", terminated |-> 0, grace |-> Unarmed, force |-> Unarmed, elapsed |-> 0,
     signal |-> "none", res |-> NoExchange, config |-> NoConfig]

ShuttingDown == [state |-> "shutdown", code |-> 0, cause |-> "none"]

\* program.action of index.ts: the options are validated, the configuration is
\* parsed, the server is made and the transport started; startOk is whether
\* Server.connect and app.listen succeed
Launch(transport, portText, startOk) ==
    /\ proc = Running
    /\ host.phase = "parsed"
    /\ host.stop = "none"
    /\ ~lifecycle.started
    /\ LET port == parseInt(portText)
           options == [host EXCEPT !.transport = transport, !.portText = portText,
                                   !.startOk = startOk]
           configured == [options EXCEPT
                            !.config = newConfigManager([transport |-> Lit(transport),
                                                         port |-> port,
                                                         host |-> Lit("localhost")])]
       IN  IF transport \notin {"stdio", "http"}
           THEN /\ proc' = Exited(1, "invalid transport")
                /\ host' = options
                /\ UNCHANGED <<connected, lifecycle>>
           ELSE IF transport = "http" /\ PortOutOfRange(port)
           THEN /\ proc' = Exited(1, "invalid port")
                /\ host' = options
                /\ UNCHANGED <<connected, lifecycle>>
           ELSE IF ~ServerConfigValid(port)
           THEN /\ proc' = Exited(1, "start failed")
                /\ host' = options
                /\ UNCHANGED <<connected, lifecycle>>
           ELSE IF ~startOk
           THEN /\ proc' = Exited(1, "start failed")
                /\ host' = configured
                /\ connected' = (transport = "http")
                /\ lifecycle' = [lifecycle EXCEPT !.started = (transport = "http")]
           ELSE /\ proc' = proc
                /\ host' = [configured EXCEPT
                                !.phase = "serving",
                                !.server = IF transport = "http" THEN "listening" ELSE "none"]
                /\ connected' = TRUE
                /\ lifecycle' = [lifecycle EXCEPT !.started = TRUE]
    /\ UNCHANGED <<tools, listeners, lastCall, now, requests, lastResponse>>

\* new ConfigManager(initialConfig): when the parse throws there is no object
NewConfigManager(initialConfig) ==
    /\ proc = Running
    /\ host.config.stored = Undefined
    /\ host' = [host EXCEPT !.config = newConfigManager(initialConfig)]
    /\ UNCHANGED <<tools, listeners, lastCall, now, connected, requests, lastResponse,
                   lifecycle, proc>>

\* configManager.updateConfig(updates)
UpdateConfig(updates) ==
    /\ proc = Running
    /\ host.config.stored # Undefined
    /\ host' = [host EXCEPT !.config = updateConfig(host.config, updates)]
    /\ UNCHANGED <<tools, listeners, lastCall, now, connected, requests, lastResponse,
                   lifecycle, proc>>

\* const c = configManager.getConfig(); c[key] = value
GetConfig(key, value) ==
    /\ proc = Running
    /\ host.config.stored # Undefined
    /\ host' = [host EXCEPT
                    !.config = ConfigCalled(host.config.stored, "getConfig",
                                            [key |-> key, value |-> value], "object")
                               @@ [copy |-> [getConfig(host.config) EXCEPT ![key] = value]]]
    /\ UNCHANGED <<tools, listeners, lastCall, now, connected, requests, lastResponse,
                   lifecycle, proc>>

\* ---------------------------------------------------------------- http.ts
OnHandleRequestErrorAlways500(res) ==
    [res EXCEPT !.headersSent = TRUE, !.statuses = Append(@, "500")]

\* The catch of the handlers of POST /mcp and GET /mcp
OnHandleRequestError(res) ==
    IF ~res.headersSent
    THEN [res EXCEPT !.headersSent = TRUE, !.statuses = Append(@, "500")]
    ELSE res

\* The handler of POST /mcp or GET /mcp: transport.handleRequest writes its
\* response, or fails before it started one, or fails after it started one
HttpRequest(method, fate) ==
    /\ proc \in {Running, ShuttingDown}
    /\ host.server = "listening" \/ (host.server = "closing" /\ host.conns > 0)
    /\ LET handled == [method |-> method, fate |-> fate,
                       headersSent |-> fate # "threw",
                       statuses |-> IF fate = "threw" THEN <<>> ELSE <<"sdk">>]
       IN  host' = [host EXCEPT !.res = IF fate = "responded" THEN handled
                                        ELSE OnHandleRequestError(handled)]
    /\ UNCHANGED <<tools, listeners, lastCall, now, connected, requests, lastResponse,
                   lifecycle, proc>>

\* A client opens a connection to the listener, or ends one
ClientConnect ==
    /\ proc = Running
    /\ host.server = "listening"
    /\ host.conns < MaxConns
    /\ host' = [host EXCEPT !.conns = @ + 1]
    /\ UNCHANGED <<tools, listeners, lastCall, now, connected, requests, lastResponse,
                   lifecycle, proc>>

ClientDisconnect ==
    /\ proc \in {Running, ShuttingDown}
    /\ host.conns > 0
    /\ host' = [host EXCEPT !.conns = @ - 1]
    /\ UNCHANGED <<tools, listeners, lastCall, now, connected, requests, lastResponse,
                   lifecycle, proc>>

stopWithoutTimer(h) ==
    IF h.server # "none"
    THEN [h EXCEPT !.server = "closing", !.stop = "pending"]
    ELSE [h EXCEPT !.stop = "resolved", !.resolvedBy = "unstarted"]

\* HttpTransport.stop up to the return of its promise
stop(h) ==
    IF h.server # "none"
    THEN [h EXCEPT !.server = "closing", !.stop = "pending",
                   !.grace = Armed(h.elapsed + GraceMs)]
    ELSE [h EXCEPT !.stop = "resolved", !.resolvedBy = "unstarted"]

\* stop() of an HttpTransport that was made and never started
HttpStop ==
    /\ proc = Running
    /\ host.phase = "parsed"
    /\ host.stop = "none"
    /\ host' = stop(host)
    /\ UNCHANGED <<tools, listeners, lastCall, now, connected, requests, lastResponse,
                   lifecycle, proc>>

\* The callback of this.server.close: the listener is closed and no
\* connection is left
ServerClosed ==
    /\ proc \in {Running, ShuttingDown}
    /\ host.server = "closing"
    /\ host.conns = 0
    /\ host' = [host EXCEPT !.server = "closed",
                            !.stop = "resolved",
                            !.resolvedBy = IF host.stop = "pending" THEN "close" ELSE @]
    /\ UNCHANGED <<tools, listeners, lastCall, now, connected, requests, lastResponse,
                   lifecycle, proc>>

\* The callback of the setTimeout of 1000 ms of stop: closeAllConnections and
\* resolve
OnGraceTimer(h) ==
    [h EXCEPT !.grace = Unarmed,
              !.conns = 0,
              !.terminated = h.conns,
              !.stop = "resolved",
              !.resolvedBy = IF h.stop = "pending" THEN "grace" ELSE @]

\* ---------------------------------------------------------------- signals
ForceTimerAtOnce(sig, h) == Armed(h.elapsed)

\* The setTimeout of the SIGINT handler of index.ts; the handlers of the other
\* signals arm no timer
ForceTimer(sig, h) == IF sig = "SIGINT" THEN Armed(h.elapsed + ForceMs) ELSE Unarmed

\* process.emit of SIGINT or SIGTERM after a successful start. Under stdio the
\* handler of StdioTransport.start calls stop(), then the handler of index.ts
\* calls shutdown, which calls stop() again; under http only the latter is
\* installed. The handler of SIGINT of index.ts arms the force-exit timer.
Signal(sig) ==
    /\ proc = Running
    /\ host.phase = "serving"
    /\ host.signal = "none"
    /\ LET force == ForceTimer(sig, host)
       IN  IF host.transport = "stdio"
           THEN LET first == serverClose(connected)
                    second == serverClose(first.connected)
                IN  /\ connected' = second.connected
                    /\ lifecycle' = [lifecycle EXCEPT
                            !.closeCalls = @ + 2,
                            !.lastClose = [ret |-> second.ret, detached |-> second.detached]]
                    /\ proc' = IF first.ret = "ok" THEN Stopping
                               ELSE [Stopping EXCEPT !.cause = "close failed"]
                    /\ host' = [host EXCEPT !.signal = sig, !.force = force]
           ELSE /\ host' = [stop(host) EXCEPT !.signal = sig, !.force = force]
                /\ proc' = ShuttingDown
                /\ UNCHANGED <<connected, lifecycle>>
    /\ UNCHANGED <<tools, listeners, lastCall, now, requests, lastResponse>>

\* shutdown of index.ts after await transport.stop(): process.exit(0)
ShutdownExit ==
    /\ proc = ShuttingDown
    /\ host.stop = "resolved"
    /\ proc' = Exited(0, "shutdown")
    /\ UNCHANGED <<tools, listeners, lastCall, now, connected, requests, lastResponse,
                   lifecycle, host>>

\* The callback of the setTimeout of 3000 ms of the SIGINT handler of index.ts
OnForceTimer == Exited(1, "force exit")

\* The event loop runs the callback of a timer that is due
TimerFires(timer) ==
    /\ proc.state # "exited"
    /\ host[timer].armed
    /\ host.elapsed >= host[timer].due
    /\ IF timer = "grace"
       THEN /\ host' = OnGraceTimer(host)
            /\ proc' = proc
       ELSE /\ host' = host
            /\ proc' = OnForceTimer
    /\ UNCHANGED <<tools, listeners, lastCall, now, connected, requests, lastResponse,
                   lifecycle>>

\* The timers that are armed and not yet due
Waiting(h) == {t \in {h.grace, h.force} : t.armed /\ t.due > h.elapsed}

\* Time passes up to the next timer: the event loop runs the continuations
\* that are ready and the timers that are due first
Advance ==
    /\ proc.state \notin {"exited", "stopping"}
    /\ ~(proc = ShuttingDown /\ host.stop = "resolved")
    /\ ~(host.grace.armed /\ host.grace.due <= host.elapsed)
    /\ ~(host.force.armed /\ host.force.due <= host.elapsed)
    /\ Waiting(host) # {}
    /\ host' = [host EXCEPT !.elapsed =
                    (CHOOSE t \in Waiting(host) :
                        \A u \in Waiting(host) : t.due <= u.due).due]
    /\ UNCHANGED <<tools, listeners, lastCall, now, connected, requests, lastResponse,
                   lifecycle, proc>>

\* ---------------------------------------------------------------- registry calls
Register(tool) ==
    /\ proc = Running
    /\ LET r == register(tools, listeners, tool, now)
       IN  /\ tools' = r.tools
           /\ listeners' = Remaining(listeners, r.fired)
           /\ lastCall' = Called("register", tool, r)
    /\ UNCHANGED <<now, connected, requests, lastResponse, lifecycle, proc, host>>

Unregister(toolName) ==
    /\ proc = Running
    /\ LET r == unregister(tools, listeners, toolName, now)
       IN  /\ tools' = r.tools
           /\ listeners' = Remaining(listeners, r.fired)
           /\ lastCall' = Called("unregister", toolName, r)
    /\ UNCHANGED <<now, connected, requests, lastResponse, lifecycle, proc, host>>

Clear ==
    /\ proc = Running
    /\ LET r == clear(tools, listeners, now)
       IN  /\ tools' = r.tools
           /\ listeners' = Remaining(listeners, r.fired)
           /\ lastCall' = Called("clear", "none", r)
    /\ UNCHANGED <<now, connected, requests, lastResponse, lifecycle, proc, host>>

\* mcpEventEmitter.on('toolChange', listener)
Subscribe(l) ==
    /\ proc = Running
    /\ Len(listeners) < 1 + MaxSubscribers
    /\ listeners' = on(listeners, l)
    /\ UNCHANGED <<tools, lastCall, now, connected, requests, lastResponse, lifecycle, proc, host>>

\* mcpEventEmitter.once('toolChange', listener)
SubscribeOnce(l) ==
    /\ proc = Running
    /\ Len(listeners) < 1 + MaxSubscribers
    /\ listeners' = once(listeners, l)
    /\ UNCHANGED <<tools, lastCall, now, connected, requests, lastResponse, lifecycle, proc, host>>

\* mcpEventEmitter.off('toolChange', listener)
Unsubscribe(l) ==
    /\ proc = Running
    /\ LastIndexOf(listeners, l) # 0
    /\ listeners' = off(listeners, l)
    /\ UNCHANGED <<tools, lastCall, now, connected, requests, lastResponse, lifecycle, proc, host>>

\* Date.now() advances
\* The return values of ToolRegistry.get, getAll, getNames, has and size
Accessors(m, toolName) ==
    [get |-> get(m, toolName), getAll |-> getAll(m), getNames |-> getNames(m),
     has |-> has(m, toolName), size |-> size(m)]

QueryRemoves(toolName) ==
    /\ proc = Running
    /\ tools' = MapDelete(tools, toolName)
    /\ lastCall' = Called("query", toolName,
                          [ret |-> "none", events |-> <<>>, calls |-> <<>>, seen |-> <<>>])
                    @@ [returned |-> Accessors(tools, toolName)]
    /\ UNCHANGED <<listeners, now, connected, requests, lastResponse, lifecycle, proc, host>>

\* A caller reads the registry with get, getAll, getNames, has and size
Query(toolName) ==
    /\ proc = Running
    /\ lastCall' = Called("query", toolName,
                          [ret |-> "none", events |-> <<>>, calls |-> <<>>, seen |-> <<>>])
                    @@ [returned |-> Accessors(tools, toolName)]
    /\ UNCHANGED <<tools, listeners, now, connected, requests, lastResponse, lifecycle,
                   proc, host>>

Tick ==
    /\ proc = Running
    /\ now < MaxTime
    /\ now' = now + 1
    /\ UNCHANGED <<tools, listeners, lastCall, connected, requests, lastResponse, lifecycle, proc, host>>

\* ---------------------------------------------------------------- construction
\* McpServer.initializeTools: forEach over the built-in tools
RECURSIVE initializeTools(_, _, _, _)
initializeTools(builtins, m, ls, t) ==
    IF builtins = <<>> THEN m
    ELSE initializeTools(Tail(builtins), register(m, ls, Head(builtins), t).tools, ls, t)

\* The state after new McpServer(): the listener is subscribed
\* (setupEventListeners), then the built-in tools are registered.
Init ==
    /\ listeners = on(<<>>, RouterListener)
    /\ tools = initializeTools(builtinTools, <<>>, on(<<>>, RouterListener), 0)
    /\ lastCall = NoCall
    /\ now = 0
    /\ connected = FALSE
    /\ requests = [id \in 1..MaxReq |-> Free]
    /\ lastResponse = NoResponse
    /\ lifecycle = NotStarted
    /\ proc = Running
    /\ host = Parsed

\* The state after the modules are loaded and before new McpServer(): the
\* registry and the emitter of registry.ts and emitter.ts exist and are empty
InitModule ==
    /\ listeners = <<>>
    /\ tools = <<>>
    /\ lastCall = NoCall
    /\ now = 0
    /\ connected = FALSE
    /\ requests = [id \in 1..MaxReq |-> Free]
    /\ lastResponse = NoResponse
    /\ lifecycle = NotStarted
    /\ proc = Running
    /\ host = Parsed

\* McpServer.initializeTools with the record of its register calls
RECURSIVE initializeRecord(_, _, _)
initializeRecord(builtins, t, acc) ==
    IF builtins = <<>> \/ acc.threw THEN acc
    ELSE LET r == register(acc.tools, acc.ls, Head(builtins), t)
         IN  initializeRecord(Tail(builtins), t,
                              [events |-> acc.events \o r.events,
                               calls |-> acc.calls \o r.calls,
                               seen |-> acc.seen \o r.seen,
                               threw |-> r.ret = "threw",
                               tools |-> r.tools,
                               ls |-> Remaining(acc.ls, r.fired)])

\* An McpServer has been constructed: its listener is subscribed
Constructed == LastIndexOf(listeners, RouterListener) # 0

ConstructPushes ==
    /\ proc = Running
    /\ ~Constructed
    /\ LET ls == on(listeners, RouterListener)
           r == initializeRecord(builtinTools, now,
                                 [events |-> <<>>, calls |-> <<>>, seen |-> <<>>,
                                  threw |-> FALSE, tools |-> tools, ls |-> ls])
       IN  /\ listeners' = r.ls
           /\ tools' = r.tools
           /\ lastCall' = [op |-> "construct", arg |-> "none", before |-> tools,
                           subscribed |-> ls,
                           ret |-> IF r.threw THEN "threw" ELSE "void",
                           events |-> r.events, calls |-> r.calls, seen |-> r.seen,
                           pushed |-> PushedAlways(r.calls, connected)]
    /\ UNCHANGED <<now, connected, requests, lastResponse, lifecycle, proc, host>>

\* new McpServer(): setupEventListeners subscribes the listener, then
\* initializeTools registers the built-in tools; the Server is new and has no
\* transport
Construct ==
    /\ proc = Running
    /\ ~Constructed
    /\ LET ls == on(listeners, RouterListener)
           r == initializeRecord(builtinTools, now,
                                 [events |-> <<>>, calls |-> <<>>, seen |-> <<>>,
                                  threw |-> FALSE, tools |-> tools, ls |-> ls])
       IN  /\ listeners' = r.ls
           /\ tools' = r.tools
           /\ lastCall' = [op |-> "construct", arg |-> "none", before |-> tools,
                           subscribed |-> ls,
                           ret |-> IF r.threw THEN "threw" ELSE "void",
                           events |-> r.events, calls |-> r.calls, seen |-> r.seen,
                           pushed |-> Pushed(r.calls, connected)]
    /\ UNCHANGED <<now, connected, requests, lastResponse, lifecycle, proc, host>>

\* ---------------------------------------------------------------- inputs
RegistryTools == {echoTool, calculatorTool, updatedTool}
RegistryNames == {"echo", "calculator"}

EchoArguments == {Undefined, [text |-> Str(0)], [text |-> Str(2)]}

NotificationArguments ==
    {[title |-> Str(1), message |-> Str(1)],
     [title |-> Str(TitleMax), message |-> Str(MessageMax), urgency |-> Lit("critical"),
      timeout |-> Num(TimeoutMax), sound |-> Lit("Ping")],
     [title |-> Str(0), message |-> Str(1)],
     [title |-> Str(TitleMax + 1), message |-> Str(1)],
     [title |-> Str(1), message |-> Str(MessageMax + 1)],
     [title |-> Str(1), message |-> Str(1), urgency |-> Lit("urgent")],
     [title |-> Str(1), message |-> Str(1), timeout |-> Num(TimeoutMax + 1)],
     [message |-> Str(1)]}

CalculatorArguments ==
    {[operation |-> Lit("add"), a |-> Num(1), b |-> Num(2)],
     [operation |-> Lit("divide"), a |-> Num(1), b |-> Num(0)]}

Calls ==
    ({"echo"} \X EchoArguments)
    \cup ({"send-notification"} \X NotificationArguments)
    \cup ({"calculator"} \X CalculatorArguments)
    \cup ({"health", "nonexistent-tool"} \X {Undefined})

Uris == {"prompt://welcome", "prompt://missing"}

NotifierErrors == {"", "Request timeout", "boom"}

\* ---------------------------------------------------------------- specifications
RegistryNext ==
    \/ \E tool \in RegistryTools : Register(tool)
    \/ \E toolName \in RegistryNames : Unregister(toolName)
    \/ Clear
    \/ \E l \in SubscriberKinds : Subscribe(l)
    \/ \E l \in SubscriberKinds : Unsubscribe(l)
    \/ Tick
    \/ Connect

\* The registry and the bus, with the router's listener subscribed
SpecRegistry == Init /\ [][RegistryNext]_vars

RouterNext ==
    \/ Connect
    \/ \E id \in 1..MaxReq : ListTools(id)
    \/ \E id \in 1..MaxReq : \E c \in Calls : CallTool(id, c[1], c[2])
    \/ \E id \in 1..MaxReq : \E error \in NotifierErrors : NotifierCallback(id, error)
    \/ \E id \in 1..MaxReq : NotificationTimeout(id)
    \/ \E id \in 1..MaxReq : ListResources(id)
    \/ \E id \in 1..MaxReq : \E uri \in Uris : ReadResource(id, uri)
    \/ \E id \in 1..MaxReq : \E fileRead \in BOOLEAN : ReadSettled(id, fileRead)
    \/ \E id \in 1..MaxReq : Forget(id)

\* The router serving requests over the built-in tools
SpecRouter == Init /\ [][RouterNext]_vars

DynamicCalls ==
    ({"echo"} \X EchoArguments)
    \cup ({"calculator"} \X CalculatorArguments)
    \cup ({"nonexistent-tool"} \X {Undefined})

DynamicNext ==
    \/ \E tool \in RegistryTools : Register(tool)
    \/ \E toolName \in RegistryNames : Unregister(toolName)
    \/ Clear
    \/ Connect
    \/ \E id \in 1..MaxReq : ListTools(id)
    \/ \E id \in 1..MaxReq : \E c \in DynamicCalls : CallTool(id, c[1], c[2])
    \/ \E id \in 1..MaxReq : Forget(id)

\* The router listing and calling tools while tools are registered, replaced
\* and removed
SpecDynamic == Init /\ [][DynamicNext]_vars

\* The errors of the notifier: one per probe, two that hold several probes, and
\* one that holds none
ClassifiedErrors ==
    {"Permission denied by user", "Not authorized: authorization required",
     "Request timeout", "Notification service not available",
     "NotificationCenter failed", "rate limit exceeded", "too many notifications",
     "Permission denied after timeout", "too many timeouts, not available", "boom"}

NotifierCalls ==
    {<<"send-notification", [title |-> Str(1), message |-> Str(1)]>>,
     <<"echo", [text |-> Str(2)]>>}

NotifierNext ==
    \/ Connect
    \/ \E id \in 1..MaxReq : \E c \in NotifierCalls : CallTool(id, c[1], c[2])
    \/ \E id \in 1..MaxReq : \E error \in ClassifiedErrors : NotifierCallback(id, error)
    \/ \E id \in 1..MaxReq : NotificationTimeout(id)
    \/ \E id \in 1..MaxReq : Forget(id)
    \/ Tick

\* send-notification calls whose notifier reports each kind of error, and echo
\* calls served meanwhile
SpecNotifier == Init /\ [][NotifierNext]_vars

\* input without the keys that are undefined
Strip(input) == [k \in {k \in DOMAIN input : input[k].t # "undefined"} |-> input[k]]

\* Inputs of send-notification: every field absent, valid or violating its
\* constraint, in every combination, with and without a key the schema does
\* not have
ValidationArguments ==
    {Strip([title |-> title, message |-> message, subtitle |-> subtitle,
            urgency |-> urgency, sound |-> sound, timeout |-> timeout, icon |-> icon,
            contentImage |-> contentImage, open |-> open, extra |-> extra]) :
        title \in {Undefined, Str(0), Str(1), Str(TitleMax + 1)},
        message \in {Undefined, Str(1), Str(MessageMax + 1)},
        subtitle \in {Undefined, Str(0), Str(SubtitleMax + 1)},
        urgency \in {Undefined, Lit("low"), Lit("urgent")},
        sound \in {Undefined, Bool(FALSE), Lit("Nope")},
        timeout \in {Undefined, Num(0), Num(30), Half(TimeoutMax)},
        icon \in {Undefined, Lit("icon.png")},
        contentImage \in {Undefined, Lit("/image.png")},
        open \in {Undefined, Lit("not a url")},
        extra \in {Undefined, Lit("x")}}

ValidationNext ==
    \/ Connect
    \/ /\ requests[1].pc = "free"
       /\ \E arguments \in ValidationArguments :
            CallTool(1, "send-notification", arguments)
    \/ \E id \in 1..MaxReq : \E error \in NotifierErrors : NotifierCallback(id, error)
    \/ \E id \in 1..MaxReq : NotificationTimeout(id)

\* One send-notification call over every combination of field values
SpecValidation == Init /\ [][ValidationNext]_vars

LifecycleTools == {calculatorTool, updatedTool}
LifecycleNames == {"calculator"}

LifecycleNext ==
    \/ Connect
    \/ Close
    \/ StdioStop
    \/ StdioExit
    \/ NotificationSendFails
    \/ \E tool \in LifecycleTools : Register(tool)
    \/ \E toolName \in LifecycleNames : Unregister(toolName)
    \/ Clear
    \/ Tick
    \/ \E id \in 1..MaxReq : ListTools(id)
    \/ \E id \in 1..MaxReq : Forget(id)

\* The router from construction to the exit of the process, with registry
\* calls and requests in between
SpecLifecycle == Init /\ [][LifecycleNext]_vars

\* One call per outcome of a tool: a result, an exception, a suspension, and
\* a name that is not registered
FrameCalls ==
    {<<"hello-world", Undefined>>, <<"health", Undefined>>,
     <<"echo", Undefined>>, <<"echo", [text |-> Str(2)]>>,
     <<"send-notification", [title |-> Str(1), message |-> Str(1)]>>,
     <<"send-notification", [message |-> Str(1)]>>,
     <<"calculator", [operation |-> Lit("divide"), a |-> Num(1), b |-> Num(0)]>>,
     <<"nonexistent-tool", Undefined>>}

FrameNext ==
    \/ \E tool \in LifecycleTools : Register(tool)
    \/ \E toolName \in LifecycleNames : Unregister(toolName)
    \/ Clear
    \/ \E toolName \in RegistryNames : Query(toolName)
    \/ Connect
    \/ ListTools(1)
    \/ \E c \in FrameCalls : CallTool(1, c[1], c[2])
    \/ \E error \in NotifierErrors : NotifierCallback(1, error)
    \/ NotificationTimeout(1)
    \/ ListResources(1)
    \/ \E uri \in Uris : ReadResource(1, uri)
    \/ \E fileRead \in BOOLEAN : ReadSettled(1, fileRead)
    \/ Forget(1)

\* Requests of every kind served one after the other, between registry calls
\* and reads of the registry
SpecFrame == Init /\ [][FrameNext]_vars

ConstructNext ==
    \/ Construct
    \/ Constructed /\ Connect
    \/ Subscribe("spy")
    \/ Unsubscribe("spy")
    \/ \E tool \in LifecycleTools : Register(tool)
    \/ \E toolName \in LifecycleNames : Unregister(toolName)
    \/ ListTools(1)
    \/ \E c \in DynamicCalls : CallTool(1, c[1], c[2])
    \/ Forget(1)

\* The process from the loading of its modules: the construction of the
\* router, its start, and requests and registry calls around them
SpecConstruct == InitModule /\ [][ConstructNext]_vars

InFlightTools == {notificationTool, replacedNotificationTool}
InFlightErrors == {"boom"}

InFlightNext ==
    \/ Connect
    \/ \E tool \in InFlightTools : Register(tool)
    \/ Unregister(notificationTool.name)
    \/ \E id \in 1..MaxReq :
          CallTool(id, notificationTool.name, [title |-> Str(1), message |-> Str(1)])
    \/ \E id \in 1..MaxReq : \E error \in InFlightErrors : NotifierCallback(id, error)
    \/ \E id \in 1..MaxReq : NotificationTimeout(id)
    \/ \E id \in 1..MaxReq : Forget(id)
    \/ Tick

\* send-notification calls suspended at the notifier while the tool is
\* unregistered and registered again, with its handler or with another
SpecInFlight == Init /\ [][InFlightNext]_vars

OnceNext ==
    \/ \E tool \in LifecycleTools : Register(tool)
    \/ \E toolName \in LifecycleNames : Unregister(toolName)
    \/ Clear
    \/ SubscribeOnce("spy")
    \/ \E l \in SubscriberKinds : Subscribe(l)
    \/ \E l \in SubscriberKinds : Unsubscribe(l)
    \/ Tick

\* Registry calls while listeners subscribe with on() and with once()
SpecOnce == Init /\ [][OnceNext]_vars

ConfigKeys == {"transport", "port", "host"}

ConfigValues ==
    [transport : {Undefined, Lit("stdio"), Lit("http"), Lit("tcp")},
     port : {Undefined, Num(PortMin), Num(PortMax), Num(PortMin - 1), Num(PortMax + 1),
             Half(80), NaN, Lit("3000")},
     host : {Undefined, Lit("0.0.0.0"), Num(0)}]

\* Partial<ServerConfig> objects: a key is absent, undefined, valid or invalid
ConfigInputs ==
    {[k \in keys |-> v[k]] : keys \in SUBSET ConfigKeys, v \in ConfigValues}

ConfigNext ==
    \/ \E initialConfig \in ConfigInputs : NewConfigManager(initialConfig)
    \/ \E updates \in ConfigInputs : UpdateConfig(updates)
    \/ \E key \in ConfigKeys :
          \E value \in {Lit("tcp"), Num(PortMax + 1), Lit("0.0.0.0")} : GetConfig(key, value)

\* A ConfigManager that is constructed, read and updated
SpecConfig == Init /\ [][ConfigNext]_vars

ReentrantSubscribers == ReentrantKinds \cup {"spy"}

ReentrantNext ==
    \/ \E tool \in LifecycleTools : Register(tool)
    \/ \E toolName \in LifecycleNames : Unregister(toolName)
    \/ Clear
    \/ \E l \in ReentrantSubscribers : Subscribe(l)
    \/ \E l \in ReentrantSubscribers : Unsubscribe(l)
    \/ Connect

\* The registry and the bus with subscribers that call the registry from
\* inside their handlers
SpecReentrant == Init /\ [][ReentrantNext]_vars

\* The values of --transport and --port: the defaults, a transport that does
\* not exist, ports at and beyond both ends of the range, a port that is no
\* number, and ports with something after the digits
Transports == {"stdio", "http", "tcp"}
PortTexts ==
    {PortText(TRUE, 3000, ""), PortText(TRUE, PortMin, ""), PortText(TRUE, PortMax, ""),
     PortText(TRUE, PortMin - 1, ""), PortText(TRUE, PortMax + 1, ""),
     PortText(FALSE, 0, "abc"), PortText(TRUE, 80, ".5"), PortText(TRUE, 8080, "x")}

Fates == {"responded", "threw", "threw after headers"}

CliNext ==
    \/ \E transport \in Transports : \E portText \in PortTexts : \E startOk \in BOOLEAN :
            Launch(transport, portText, startOk)
    \/ \E id \in 1..MaxReq : ListTools(id)
    \/ \E id \in 1..MaxReq : Forget(id)
    \/ \E method \in {"POST", "GET"} : \E fate \in Fates : HttpRequest(method, fate)
    \/ ClientConnect
    \/ ClientDisconnect
    \/ HttpStop
    \/ \E sig \in {"SIGINT", "SIGTERM"} : Signal(sig)
    \/ ServerClosed
    \/ \E timer \in {"grace", "force"} : TimerFires(timer)
    \/ StdioExit
    \/ ShutdownExit
    \/ Advance

\* The process from its command line to its exit
SpecCli == Init /\ [][CliNext]_vars

\* The event loop runs the continuations that are ready and the timers that
\* are due, and time passes; clients are under no obligation
CliFairness ==
    /\ WF_vars(StdioExit)
    /\ WF_vars(ShutdownExit)
    /\ WF_vars(TimerFires("grace"))
    /\ WF_vars(TimerFires("force"))
    /\ WF_vars(Advance)

LiveCli == Init /\ [][CliNext]_vars /\ CliFairness

\* The timer of handleNotification fires and readFile settles: the event loop
\* runs every timer that is due and every I/O completion. The callback of the
\* notifier has no such guarantee.
RouterFairness ==
    \A id \in 1..MaxReq :
        /\ WF_vars(NotificationTimeout(id))
        /\ WF_vars(\E fileRead \in BOOLEAN : ReadSettled(id, fileRead))

LiveRouter == Init /\ [][RouterNext]_vars /\ RouterFairness

\* ================================================================ claims
\* The fields of an input that violate the shape notificationTool.inputSchema
\* declares
DeclaredViolations(input) ==
    LET v(k) == Field(input, k)
        badLength(k, lo, hi) == v(k).t # "string" \/ v(k).len < lo \/ v(k).len > hi
    IN  {k \in NotificationKeys :
            CASE k = "title" -> badLength(k, 1, TitleMax)
              [] k = "message" -> badLength(k, 1, MessageMax)
              [] k = "subtitle" -> v(k).t # "undefined" /\ badLength(k, 0, SubtitleMax)
              [] k = "urgency" ->
                    v(k).t # "undefined" /\ (v(k).t # "string" \/ v(k).s \notin UrgencyValues)
              [] k = "sound" ->
                    /\ v(k).t \notin {"undefined", "boolean"}
                    /\ (v(k).t # "string"
                        \/ (v(k).s \notin SoundNames /\ v(k).s \notin AbsolutePaths))
              [] k = "timeout" ->
                    /\ v(k).t # "undefined"
                    /\ (\/ v(k).t # "number"
                        \/ v(k).n < TimeoutMin
                        \/ v(k).n > TimeoutMax
                        \/ (v(k).n = TimeoutMax /\ ~v(k).int))
              [] k \in {"icon", "contentImage"} ->
                    v(k).t # "undefined" /\ (v(k).t # "string" \/ v(k).s \notin AbsolutePaths)
              [] k = "open" ->
                    v(k).t # "undefined" /\ (v(k).t # "string" \/ v(k).s \notin ValidUrls)}

\* The error messages that are specific to a field: no other field of the
\* shape can produce them, so the message tells the caller which field to fix
MessagesAbout(k) ==
    CASE k = "title" -> {"Title is required and cannot be empty",
                         "Title must be 100 characters or less"}
      [] k = "message" -> {"Message is required and cannot be empty",
                           "Message must be 500 characters or less"}
      [] k = "subtitle" -> {"Subtitle must be 100 characters or less"}
      [] k = "urgency" ->
            {"Invalid enum value. Expected 'low' | 'normal' | 'critical', received 'urgent'"}
      [] k = "sound" -> {"Invalid input"}
      [] k = "timeout" -> {"Timeout is required and cannot be empty",
                           "Number must be less than or equal to 60",
                           "Expected integer, received float"}
      [] k = "icon" -> {"Icon must be an absolute path"}
      [] k = "contentImage" -> {"Content image must be an absolute path"}
      [] k = "open" -> {"Open must be a valid URL"}

IsNotificationCall(r) ==
    r.method = "tools/call" /\ r.params.name = "send-notification"

\* The body of a tools/call result: the handler's value, parsed from the text
Body(response) == response.result.content[1].text.json

\* C1: a send-notification call whose input violates the declared shape gets a
\* result (never a protocol error) whose body has success = false and an error
\* message specific to a violated field, and the notifier has not been called.
C1_ValidationFailureIsFieldSpecificResult ==
    LET r == lastResponse
        violated == DeclaredViolations(OrEmpty(r.params.arguments))
    IN  (IsNotificationCall(r) /\ violated # {}) =>
            /\ r.response.kind = "result"
            /\ Body(r.response).success = FALSE
            /\ \E k \in violated : Body(r.response).error \in MessagesAbout(k)
            /\ ~r.notified

\* A step in which the router consumes request id and responds to it at once
ServedAtOnce(id) ==
    /\ requests[id].pc = "free"
    /\ requests'[id].pc = "done"
    /\ lastResponse'.id = id

\* A failed request changes nothing but its own slot: the router stays
\* connected, the registry and the other requests are as they were.
OnlyThisRequest(id) ==
    /\ connected' = connected
    /\ tools' = tools
    /\ \A other \in (1..MaxReq) \ {id} : requests'[other] = requests[other]

ExpectedException(params) ==
    CASE params.name = "echo" /\ OrEmpty(params.arguments) = <<>> ->
            "ZodError: {text: Required}"
      [] params.name = "echo" /\ params.arguments = [text |-> Str(0)] ->
            "ZodError: {text: Text cannot be empty}"
      [] params.name = "calculator" /\ Field(OrEmpty(params.arguments), "operation") = Lit("divide")
            /\ Field(OrEmpty(params.arguments), "b") = Num(0) ->
            "Error: Division by zero is not allowed"
      [] OTHER -> ""

\* C3: a call whose handler raises gets the protocol error
\* "Tool execution failed: <the error>", not a result with success = false;
\* echo raises for empty and for missing text; nothing but this request's slot
\* changes.
C3_HandlerExceptionIsProtocolError ==
    [][\A id \in 1..MaxReq :
        (/\ ServedAtOnce(id)
         /\ lastResponse'.method = "tools/call"
         /\ has(tools, lastResponse'.params.name)
         /\ get(tools, lastResponse'.params.name).handler
                \in {"handleEcho", "calculatorHandler"}
         /\ ExpectedException(lastResponse'.params) # "")
        => /\ lastResponse'.response =
                Error("Tool execution failed: " \o ExpectedException(lastResponse'.params))
           /\ lastResponse'.handler = get(tools, lastResponse'.params.name).handler
           /\ OnlyThisRequest(id)]_vars

C3_Witness ==
    /\ lastResponse.method = "tools/call"
    /\ lastResponse.params = [name |-> "echo", arguments |-> [text |-> Str(0)]]
    /\ lastResponse.handler = "handleEcho"
    /\ lastResponse.response =
            Error("Tool execution failed: ZodError: {text: Text cannot be empty}")
    /\ connected

\* C4: a request in flight has no response yet, a request that is done has
\* exactly one, and every request in flight is eventually done.
C4_ExactlyOneResponse ==
    /\ [](\A id \in 1..MaxReq :
            /\ requests[id].pc \in {"awaiting", "reading"} => requests[id].nresp = 0
            /\ requests[id].pc = "done" => requests[id].nresp = 1)
    /\ \A id \in 1..MaxReq :
            (requests[id].pc \in {"awaiting", "reading"}) ~> (requests[id].pc = "done")

\* The timer has answered a send-notification call whose callback has not fired
C4_Witness ==
    \E id \in 1..MaxReq :
        /\ requests[id].pc = "done"
        /\ requests[id].nresp = 1
        /\ requests[id].cb = "pending"
        /\ requests[id].timer = "fired"
        /\ lastResponse.id = id
        /\ IsNotificationCall(lastResponse)
        /\ Body(lastResponse.response).success = TRUE

Occurrences(m, name) == Cardinality({i \in 1..Len(m) : m[i].name = name})

\* C5: a register call emits exactly one record for the registered name:
\* tool_updated with reason "Tool definition updated" if the name was in the
\* registry just before the call, else tool_added with reason "New tool
\* registered"; so also after the name was unregistered or cleared.
C5_RegisterEmitsOneRecord ==
    (lastCall.op = "register") =>
        /\ Len(lastCall.events) = 1
        /\ lastCall.events[1].toolName = lastCall.arg.name
        /\ IF Occurrences(lastCall.before, lastCall.arg.name) > 0
           THEN /\ lastCall.events[1].type = "tool_updated"
                /\ lastCall.events[1].metadata.reason = "Tool definition updated"
           ELSE /\ lastCall.events[1].type = "tool_added"
                /\ lastCall.events[1].metadata.reason = "New tool registered"

\* echo, a built-in registered at construction, is registered again after it
\* was removed and the record is tool_added
C5_Witness ==
    /\ lastCall.op = "register"
    /\ lastCall.arg = echoTool
    /\ lastCall.events[1].type = "tool_added"
    /\ lastCall.events[1].metadata.reason = "New tool registered"

\* C6: after register(op), get(op.name) is op, the name is in the registry
\* once, and getAll() is one longer than before if the name was new and as
\* long as before if it was not.
C6_RegisterIsVisible ==
    /\ \A i, j \in 1..Len(tools) : tools[i].name = tools[j].name => i = j
    /\ (lastCall.op = "register") =>
        /\ get(tools, lastCall.arg.name) = lastCall.arg
        /\ Occurrences(getAll(tools), lastCall.arg.name) = 1
        /\ Len(getAll(tools)) =
                Len(lastCall.before)
                + (IF Occurrences(lastCall.before, lastCall.arg.name) > 0 THEN 0 ELSE 1)

\* The calculator is replaced by its updated definition: the length is the same
C6_Witness ==
    /\ lastCall.op = "register"
    /\ lastCall.arg = updatedTool
    /\ get(lastCall.before, "calculator") = calculatorTool
    /\ get(tools, "calculator") = updatedTool
    /\ Len(tools) = Len(lastCall.before)

Without(m, name) == SelectSeq(m, LAMBDA t : t.name # name)

\* C7: unregister of a name that is not registered returns false, emits nothing
\* and leaves the registry as it was; of a registered name it removes that
\* entry, returns true and emits one tool_removed record for the name.
C7_UnregisterContract ==
    (lastCall.op = "unregister") =>
        IF Occurrences(lastCall.before, lastCall.arg) = 0
        THEN /\ lastCall.ret = "false"
             /\ lastCall.events = <<>>
             /\ tools = lastCall.before
        ELSE /\ tools = Without(lastCall.before, lastCall.arg)
             /\ lastCall.ret = "true"
             /\ Len(lastCall.events) = 1
             /\ lastCall.events[1].type = "tool_removed"
             /\ lastCall.events[1].toolName = lastCall.arg

\* C8: clear on a registry of N entries leaves it empty and emits N
\* tool_removed records with reason "Registry cleared", one per entry in the
\* order of the entries, and nothing on an empty registry.
C8_ClearContract ==
    (lastCall.op = "clear") =>
        /\ tools = <<>>
        /\ Len(lastCall.events) = Len(lastCall.before)
        /\ \A i \in 1..Len(lastCall.events) :
                /\ lastCall.events[i].type = "tool_removed"
                /\ lastCall.events[i].toolName = lastCall.before[i].name
                /\ lastCall.events[i].metadata.reason = "Registry cleared"

\* C9: a tools/list request is answered with the name, description and input
\* schema of exactly the tools in the registry when it is served, in the
\* registry's order.
C9_ListIsCurrentRegistry ==
    [][\A id \in 1..MaxReq :
        (ServedAtOnce(id) /\ lastResponse'.method = "tools/list")
        => /\ lastResponse'.response.kind = "result"
           /\ LET listed == lastResponse'.response.result.tools
              IN  /\ Len(listed) = Len(tools)
                  /\ \A i \in 1..Len(tools) :
                        /\ listed[i].name = tools[i].name
                        /\ listed[i].description = tools[i].description
                        /\ listed[i].inputSchema = tools[i].inputSchema]_vars

\* The calculator was registered after the four built-in tools and echo was
\* unregistered: the list is the remaining four, the calculator last
C9_Witness ==
    /\ lastResponse.method = "tools/list"
    /\ lastResponse.response.result.tools = Listed(tools)
    /\ getNames(tools) = <<"hello-world", "health", "send-notification", "calculator">>
    /\ lastCall.op = "unregister"
    /\ lastCall.arg = "echo"
    /\ Len(lastCall.before) = Len(tools) + 1

\* C10: whatever a listener does, each record a registry call emits is handed
\* to every listener subscribed at the call, and the call returns normally.
C10_ThrowingListenerIsIsolated ==
    (lastCall.op # "none") =>
        /\ lastCall.ret # "threw"
        /\ \A e \in 1..Len(lastCall.events) :
           \A i \in 1..Len(lastCall.subscribed) :
                \E c \in 1..Len(lastCall.calls) :
                    /\ lastCall.calls[c].listener = i
                    /\ lastCall.calls[c].event = lastCall.events[e]

\* The calls a publish of each event in turn makes when every subscribed
\* listener is called once, in subscription order
RECURSIVE Deliveries(_, _)
Deliveries(events, subscribed) ==
    IF events = <<>> THEN <<>>
    ELSE [i \in 1..Len(subscribed) |->
            [listener |-> i, kind |-> subscribed[i], event |-> Head(events)]]
         \o Deliveries(Tail(events), subscribed)

\* C11: each record a registry call publishes is handed, before the call
\* returns, once to every listener subscribed at that moment, in subscription
\* order, and to no listener that was unsubscribed before.
C11_DeliveredOnceInOrder ==
    (lastCall.op # "none") =>
        lastCall.calls = Deliveries(lastCall.events, lastCall.subscribed)

\* The router's state as the spec names it: no transport started yet, a
\* transport attached, the transport closed
RouterState ==
    IF connected THEN "Connected"
    ELSE IF lifecycle.started THEN "Closed" ELSE "Disconnected"

\* C12: the router only moves Disconnected -> Connected (by connect) and
\* Connected -> Closed (by close); Closed is left by nothing and serves no
\* request; a close() of a Closed router returns normally and changes nothing,
\* and the two stop() calls of one signal end the process with code 0.
C12_LifecycleTransitions ==
    /\ [][/\ (RouterState' # RouterState) =>
                \/ /\ RouterState = "Disconnected"
                   /\ RouterState' = "Connected"
                   /\ lifecycle'.closeCalls = lifecycle.closeCalls
                \/ /\ RouterState = "Connected"
                   /\ RouterState' = "Closed"
                   /\ lifecycle'.closeCalls = lifecycle.closeCalls + 1
          /\ (RouterState = "Closed") =>
                /\ RouterState' = "Closed"
                /\ lastResponse' = lastResponse
                /\ \A id \in 1..MaxReq :
                        requests[id].pc = "free" => requests'[id].pc = "free"
          /\ (RouterState = "Closed" /\ lifecycle'.closeCalls = lifecycle.closeCalls + 1) =>
                /\ lifecycle'.lastClose = [ret |-> "ok", detached |-> FALSE]
                /\ <<connected, tools, listeners, requests>>'
                        = <<connected, tools, listeners, requests>>
                /\ proc'.cause = "none"]_vars
    /\ [](proc.state = "exited" /\ proc.cause = "stop" => proc.code = 0)

\* Both stop() calls of a signal have run on a connected router, the second
\* found it closed, and the process has exited with code 0
C12_Witness ==
    /\ RouterState = "Closed"
    /\ lifecycle.closeCalls = 2
    /\ lifecycle.lastClose = [ret |-> "ok", detached |-> FALSE]
    /\ proc = Exited(0, "stop")

\* C13: once the router is Closed its listener is not among the listeners of
\* the bus.
C13_ClosedRouterIsUnsubscribed ==
    (RouterState = "Closed") =>
        \A i \in 1..Len(listeners) : listeners[i] # RouterListener

\* The events of a registry call that the router's listener was called with
ReceivedByRouter(call) ==
    LET received == SelectSeq(call.calls, LAMBDA c : c.kind = RouterListener)
    IN  [i \in 1..Len(received) |-> received[i].event]

\* C14: a registry call made while Connected pushes, for each record the
\* router's listener receives, one list_changed notification with that
\* record's type, tool name and timestamp; a call made while Disconnected or
\* Closed pushes nothing, returns normally and leaves the process running.
C14_OnePushPerRecordWhileConnected ==
    [][(lastCall' # lastCall) =>
        LET received == ReceivedByRouter(lastCall')
        IN  IF RouterState = "Connected"
            THEN /\ Len(lastCall'.pushed) = Len(received)
                 /\ \A i \in 1..Len(received) :
                        /\ lastCall'.pushed[i].method = "notifications/tools/list_changed"
                        /\ lastCall'.pushed[i].params =
                                [type |-> received[i].type,
                                 toolName |-> received[i].toolName,
                                 timestamp |-> received[i].timestamp]
            ELSE /\ lastCall'.pushed = <<>>
                 /\ lastCall'.ret # "threw"
                 /\ proc' = proc]_vars

\* The calculator is registered on a Closed router at time 1: the listener,
\* still subscribed, receives the record and pushes nothing
C14_Witness ==
    /\ RouterState = "Closed"
    /\ lastCall.op = "register"
    /\ lastCall.arg = calculatorTool
    /\ Len(ReceivedByRouter(lastCall)) = 1
    /\ lastCall.events[1].timestamp = 1
    /\ lastCall.pushed = <<>>
    /\ lastCall.ret = "void"
    /\ proc = Running

\* C15: a push that fails never changes what the registry call returned, never
\* reaches its caller and never ends the process.
C15_PushFailureIsAdvisory ==
    (lastCall.pushed # <<>>) =>
        /\ lastCall.ret # "threw"
        /\ ~(proc.state = "exited" /\ proc.cause = "unhandledRejection")

\* C16: the notifications a registry call pushes while Connected are in the
\* order in which the call emitted their records.
C16_PushesInEmissionOrder ==
    (lastCall.pushed # <<>>) =>
        /\ Len(lastCall.pushed) = Len(lastCall.events)
        /\ \A i \in 1..Len(lastCall.pushed) :
                /\ lastCall.pushed[i].params.toolName = lastCall.events[i].toolName
                /\ lastCall.pushed[i].params.type = lastCall.events[i].type

\* clear() on the connected router with the calculator registered after the
\* built-in tools: five notifications, in the order of registration
C16_Witness ==
    /\ lastCall.op = "clear"
    /\ getNames(lastCall.before)
            = <<"hello-world", "echo", "health", "send-notification", "calculator">>
    /\ [i \in 1..Len(lastCall.pushed) |-> lastCall.pushed[i].params.toolName]
            = getNames(lastCall.before)

\* C17: a send-notification call with valid input goes to the notifier and is
\* eventually answered; when the timer settles it while the notifier's callback
\* has not fired, the answer is a result with success = true.
C17_ValidNotificationReturns ==
    /\ [](IsNotificationCall(lastResponse)
          /\ DeclaredViolations(OrEmpty(lastResponse.params.arguments)) = {}
          => lastResponse.notified)
    /\ [][\A id \in 1..MaxReq :
            (/\ requests[id].pc = "awaiting"
             /\ requests'[id].pc = "done"
             /\ requests'[id].cb = "pending")
            => /\ requests'[id].timer = "fired"
               /\ lastResponse'.id = id
               /\ lastResponse'.response.kind = "result"
               /\ Body(lastResponse'.response).success = TRUE
               /\ Body(lastResponse'.response).timestamp = requests[id].ts]_vars
    /\ \A id \in 1..MaxReq :
            (requests[id].pc = "awaiting") ~> (requests[id].pc = "done")

\* The call with every optional field of the model set is answered by the
\* timer, the callback has not fired
C17_Witness ==
    /\ IsNotificationCall(lastResponse)
    /\ lastResponse.params.arguments =
            [title |-> Str(TitleMax), message |-> Str(MessageMax),
             urgency |-> Lit("critical"), timeout |-> Num(TimeoutMax), sound |-> Lit("Ping")]
    /\ requests[lastResponse.id].pc = "done"
    /\ requests[lastResponse.id].cb = "pending"
    /\ requests[lastResponse.id].reported = "none"
    /\ Body(lastResponse.response) = SuccessOutput(0)

\* The rules of the classification in their fixed order: the probes and the
\* user-facing message
ClassificationRules ==
    << [probes |-> {"Permission denied", "authorization"},
        message |-> "Notification permission denied. Please allow notifications in System Preferences > Notifications > Terminal (or your app)"],
       [probes |-> {"timeout"},
        message |-> "Notification timeout - the notification system may be busy. Please try again"],
       [probes |-> {"not available", "NotificationCenter"},
        message |-> "macOS Notification Center is not available. Please check that you are running on macOS"],
       [probes |-> {"rate limit", "too many"},
        message |-> "Too many notifications sent recently. Please wait a moment before sending more"] >>

FirstMatchingRule(error) ==
    LET matching == {i \in 1..Len(ClassificationRules) :
                        ClassificationRules[i].probes \cap Substrings(error) # {}}
    IN  IF matching = {} THEN 0
        ELSE CHOOSE i \in matching : \A j \in matching : i <= j

\* The request whose response lastResponse is, when the notifier's callback
\* settled it with an error
FailedByNotifier ==
    /\ lastResponse.id \in 1..MaxReq
    /\ requests[lastResponse.id].pc = "done"
    /\ requests[lastResponse.id].cb = "fired"
    /\ requests[lastResponse.id].reported \notin {"", "none"}
    /\ lastResponse.notified

\* C18: a call the notifier fails gets a result with success = false and the
\* message of the first rule, in the fixed order, of which the error holds a
\* probe, or "Notification error: <message>" when it holds none.
C18_FirstMatchingRuleWins ==
    FailedByNotifier =>
        LET error == requests[lastResponse.id].reported
            rule == FirstMatchingRule(error)
        IN  /\ lastResponse.response.kind = "result"
            /\ Body(lastResponse.response).success = FALSE
            /\ Body(lastResponse.response).error =
                    IF rule = 0 THEN "Notification error: " \o error
                    ELSE ClassificationRules[rule].message

\* An error that holds "Permission denied" and "timeout" is reported as
\* permission denied, the earlier rule
C18_Witness ==
    /\ FailedByNotifier
    /\ requests[lastResponse.id].reported = "Permission denied after timeout"
    /\ Body(lastResponse.response).error = ClassificationRules[1].message

\* C19: a resources/read of a URI of the catalog is answered with one text
\* content item that has the URI, the catalog's MIME type and the content; of
\* any other URI with the error "Resource not found: <uri>", which changes
\* nothing but that request's slot.
C19_ReadResource ==
    /\ [](lastResponse.method = "resources/read" =>
            LET uri == lastResponse.params.uri
                listed == {i \in 1..Len(promptResources) : promptResources[i].uri = uri}
            IN  IF listed # {}
                THEN /\ lastResponse.response.kind = "result"
                     /\ Len(lastResponse.response.result.contents) = 1
                     /\ LET item == lastResponse.response.result.contents[1]
                        IN  /\ item.uri = uri
                            /\ \E i \in listed : item.mimeType = promptResources[i].mimeType
                            /\ item.text \in {"welcome.txt", "Welcome to the " \o appName \o "!"}
                ELSE lastResponse.response = Error("Resource not found: " \o uri))
    /\ [][\A id \in 1..MaxReq :
            (ServedAtOnce(id) /\ lastResponse'.method = "resources/read")
            => /\ lastResponse'.response.kind = "error"
               /\ OnlyThisRequest(id)]_vars

\* The welcome prompt is read while the other request is still in flight; its
\* file could not be read and the fallback text is served
C19_Witness ==
    /\ lastResponse.method = "resources/read"
    /\ lastResponse.params.uri = "prompt://welcome"
    /\ lastResponse.response.result.contents =
            <<[uri |-> "prompt://welcome", mimeType |-> "text/plain",
               text |-> "Welcome to the DingDong Notification Server!"]>>
    /\ \E other \in 1..MaxReq :
            /\ other # lastResponse.id
            /\ requests[other].pc \in {"awaiting", "reading"}

C25_OutputShape ==
    (IsNotificationCall(lastResponse) /\ lastResponse.response.kind = "result") =>
        LET body == Body(lastResponse.response)
        IN  /\ {"success", "timestamp"} \subseteq DOMAIN body
            /\ body.success \in BOOLEAN
            /\ body.timestamp \in 0..MaxTime + 1
            /\ IF body.success
               THEN /\ "notificationId" \in DOMAIN body
                    /\ body.notificationId # ""
                    /\ "error" \notin DOMAIN body
               ELSE /\ "error" \in DOMAIN body
                    /\ body.error # ""
                    /\ "notificationId" \notin DOMAIN body

\* The notifier failed a valid call, and the result is a failure output
C25_Witness ==
    /\ IsNotificationCall(lastResponse)
    /\ DeclaredViolations(OrEmpty(lastResponse.params.arguments)) = {}
    /\ Body(lastResponse.response).success = FALSE
    /\ Body(lastResponse.response).error = "Notification error: boom"

C27_MissingRequiredFieldIsNamed ==
    LET input == OrEmpty(lastResponse.params.arguments)
        missing == {"title", "message"} \ DOMAIN input
    IN  (IsNotificationCall(lastResponse) /\ missing # {}) =>
            /\ Body(lastResponse.response).success = FALSE
            /\ \E k \in missing : Body(lastResponse.response).error \in MessagesAbout(k)

\* The messages the constraints of a field can fail with, as the caller gets them
FailuresOf(k) ==
    MessagesAbout(k)
    \cup (IF k \in {"title", "message"} THEN {"Required"} ELSE {})

\* The position of a field in the declaration of the schema
DeclarationOrder ==
    <<"title", "message", "subtitle", "urgency", "sound", "timeout", "icon",
      "contentImage", "open">>

FirstViolated(input) ==
    LET at == CHOOSE i \in 1..Len(DeclarationOrder) :
                /\ DeclarationOrder[i] \in DeclaredViolations(input)
                /\ \A j \in 1..(i - 1) : DeclarationOrder[j] \notin DeclaredViolations(input)
    IN  DeclarationOrder[at]

\* C28: when the input of a send-notification call violates the constraints of
\* one or more fields, the error of the result is one failure of the first
\* violated field in the order of the declaration, and of no later field.
C28_FirstViolatedFieldWins ==
    LET input == OrEmpty(lastResponse.params.arguments)
    IN  (IsNotificationCall(lastResponse) /\ DeclaredViolations(input) # {}) =>
            /\ Body(lastResponse.response).success = FALSE
            /\ Body(lastResponse.response).error \in FailuresOf(FirstViolated(input))

\* The subtitle is too long and the urgency, the sound, the timeout and the
\* URL are wrong as well: the failure is the subtitle's
C28_Witness ==
    /\ IsNotificationCall(lastResponse)
    /\ DeclaredViolations(OrEmpty(lastResponse.params.arguments)) =
            {"subtitle", "urgency", "sound", "timeout", "icon", "open"}
    /\ Body(lastResponse.response).error = "Subtitle must be 100 characters or less"

\* The listener calls of the last registry call that deliver one of the
\* records of that call
OwnDeliveries ==
    {c \in 1..Len(lastCall.calls) :
        \E e \in 1..Len(lastCall.events) : lastCall.calls[c].event = lastCall.events[e]}

\* C29: a subscriber handling the record of a register call finds the new
\* definition with get(name) and in getAll(); a subscriber handling a
\* "removed" record finds has(name) false.
C29_RecordAfterVisibleMutation ==
    \A c \in OwnDeliveries :
        LET event == lastCall.calls[c].event
            found == lastCall.seen[c]
        IN  /\ lastCall.op = "register" =>
                /\ get(found, lastCall.arg.name) = lastCall.arg
                /\ \E i \in 1..Len(getAll(found)) : getAll(found)[i] = lastCall.arg
            /\ event.type = "tool_removed" => ~has(found, event.toolName)

\* The registry right after the mutation of the last registry call
Mutated ==
    CASE lastCall.op = "register" -> MapSet(lastCall.before, lastCall.arg)
      [] lastCall.op = "unregister" -> MapDelete(lastCall.before, lastCall.arg)
      [] lastCall.op = "clear" -> <<>>
      [] OTHER -> lastCall.before

\* C30: from the mutation of a registry call to the end of the delivery of its
\* records, every listener is called with a record of that call and finds
\* the registry as that call's mutation left it, and so does the caller when
\* the call returns.
C30_CallIsAtomicWithItsEmission ==
    (lastCall.op # "none") =>
        /\ \A c \in 1..Len(lastCall.calls) :
                /\ c \in OwnDeliveries
                /\ lastCall.seen[c] = Mutated
        /\ lastCall.ret # "threw" => tools = Mutated

\* C21: when the handling of a POST or GET on /mcp fails, a 500 response is
\* written if and only if no response had been started; the request never has
\* two responses and the process goes on as it was.
C21_FailedRequestGetsOne500 ==
    /\ [](host.res.method # "none" =>
            /\ Len(host.res.statuses) <= 1
            /\ host.res.fate = "threw" <=> host.res.statuses = <<"500">>
            /\ host.res.fate = "threw after headers" => host.res.statuses = <<"sdk">>)
    /\ [][host'.res # host.res => proc' = proc]_vars

\* The handling of a GET failed after the response had been started: no 500
\* is written and the process runs
C21_Witness ==
    /\ host.res.method = "GET"
    /\ host.res.fate = "threw after headers"
    /\ host.res.statuses = <<"sdk">>
    /\ proc = Running

\* C22: stop() of a transport that was never started is resolved when it
\* returns; stop() of a started one is pending no longer than the grace timer
\* and is always resolved in the end, with no connection left, also when a
\* client never closes its connection.
C22_StopAlwaysCompletes ==
    /\ [][(host.stop = "none" /\ host'.stop # "none" /\ host.server = "none")
            => host'.stop = "resolved"]_vars
    /\ [](host.stop = "pending" =>
            /\ host.grace.armed
            /\ host.elapsed <= host.grace.due)
    /\ [](host.stop = "resolved" => host.conns = 0)
    /\ (host.stop = "pending") ~> (host.stop = "resolved")

\* The grace timer has ended the stop and terminated the connection a client
\* kept open
C22_Witness ==
    /\ host.stop = "resolved"
    /\ host.resolvedBy = "grace"
    /\ host.terminated = MaxConns
    /\ host.elapsed = GraceMs

\* The --port values that are an integer in 1..65535
IsPort(text) ==
    /\ text.hasLead
    /\ text.rest = ""
    /\ text.lead \in PortMin..PortMax

\* C23: when --transport is neither stdio nor http, or --port is not an
\* integer in 1..65535, or the start of the transport fails, the process has
\* exited with code 1 and has answered no request.
C23_BadOptionsExitWithOne ==
    (/\ host.transport # "none"
     /\ \/ host.transport \notin {"stdio", "http"}
        \/ ~IsPort(host.portText)
        \/ ~host.startOk)
    => /\ proc.state = "exited"
       /\ proc.code = 1
       /\ lastResponse = NoResponse
       /\ \A id \in 1..MaxReq : requests[id] = Free

\* C24: after a successful start a SIGINT or SIGTERM always leads to the exit
\* of the process, the exit code is 0, and the stop is complete before the
\* force-exit timer of SIGINT is due.
C24_SignalLeadsToExitZero ==
    /\ (host.signal # "none") ~> (proc.state = "exited")
    /\ [](proc.state = "exited" /\ host.signal # "none" =>
            /\ proc.code = 0
            /\ host.force.armed => host.elapsed < host.force.due)
    /\ [](host.stop = "resolved" /\ host.force.armed => host.elapsed < host.force.due)

\* After a SIGINT under http with a connection kept open the process has
\* exited with code 0 at the grace timer
C24_Witness ==
    /\ proc = Exited(0, "shutdown")
    /\ host.signal = "SIGINT"
    /\ host.transport = "http"
    /\ host.resolvedBy = "grace"
    /\ host.terminated > 0

\* C31: in handleNotification the notifier's callback and the timer are
\* joined by Promise.race. A call that the callback settles while the timer is
\* armed is answered success = false when the callback had an error and
\* success = true when it had none; a call that the timer settles first is
\* answered success = true; and a callback or a timer that fires for a call
\* already answered changes no response, answers nothing, and leaves the
\* process running.
C31_FirstToCompleteWins ==
    [][\A id \in 1..MaxReq :
        /\ (requests[id].pc = "awaiting" /\ requests'[id].pc = "done") =>
              /\ lastResponse'.id = id
              /\ lastResponse'.response.kind = "result"
              /\ requests'[id].nresp = 1
              /\ \/ /\ requests'[id].cb = "fired"
                    /\ requests'[id].timer = "armed"
                    /\ Body(lastResponse'.response).success = (requests'[id].reported = "")
                 \/ /\ requests'[id].cb = "pending"
                    /\ requests'[id].timer = "fired"
                    /\ Body(lastResponse'.response).success = TRUE
        /\ (requests[id].pc = "done" /\ requests'[id].pc = "done"
            /\ requests'[id] # requests[id]) =>
              /\ requests'[id].nresp = 1
              /\ requests'[id].outcome = requests[id].outcome
              /\ lastResponse' = lastResponse
              /\ proc' = Running]_vars

\* The timer answered a send-notification call with success = true and the
\* notifier's callback fired afterwards
C31_Witness ==
    /\ IsNotificationCall(lastResponse)
    /\ requests[lastResponse.id].pc = "done"
    /\ "reported" \in DOMAIN requests[lastResponse.id]
    /\ requests[lastResponse.id].reported = "none"
    /\ requests[lastResponse.id].timer = "fired"
    /\ requests[lastResponse.id].cb = "fired"
    /\ requests[lastResponse.id].nresp = 1
    /\ Body(lastResponse.response).success = TRUE

C33_ConstructionPushesNothing ==
    /\ [][(lastCall'.op = "construct" /\ lastCall.op # "construct") =>
            /\ ~connected /\ ~connected'
            /\ Len(lastCall'.events) = Len(builtinTools)
            /\ \A i \in 1..Len(builtinTools) :
                    /\ lastCall'.events[i].toolName = builtinTools[i].name
                    /\ lastCall'.events[i].type \in {"tool_added", "tool_updated"}
            /\ ReceivedByRouter(lastCall') = lastCall'.events
            /\ lastCall'.pushed = <<>>
            /\ lastCall'.ret = "void"
            /\ \A i \in 1..Len(builtinTools) :
                    get(tools', builtinTools[i].name) = builtinTools[i]
            /\ \A id \in 1..MaxReq : requests'[id] = Free
            /\ lastResponse' = NoResponse]_vars
    /\ [](lastCall.op = "construct" => lastCall.pushed = <<>>)
    /\ []((connected \/ lastResponse # NoResponse
           \/ \E id \in 1..MaxReq : requests[id] # Free) =>
            /\ Constructed
            /\ \A i \in 1..Len(builtinTools) :
                    get(tools, builtinTools[i].name) = builtinTools[i])

\* The router was constructed while a subscriber was listening, then
\* connected and has answered tools/list with the four built-in tools
C33_Witness ==
    /\ lastCall.op = "construct"
    /\ Len(lastCall.calls) = 2 * Len(builtinTools)
    /\ lastCall.pushed = <<>>
    /\ connected
    /\ lastResponse.method = "tools/list"
    /\ tools = builtinTools

\* C34: a tools/call that is suspended in its handler is completed by the
\* handler that the registry held when the request started, with the result
\* or the failure of that handler, also when the tool has been unregistered
\* or registered with another handler meanwhile; a request that starts is
\* served from the registry of that moment: "Unknown tool" when the name is
\* absent, else the handler registered then.
C34_InFlightKeepsItsHandler ==
    [][\A id \in 1..MaxReq :
        /\ (requests[id].pc = "awaiting" /\ requests'[id].pc = "done") =>
              /\ lastResponse'.id = id
              /\ lastResponse'.handler = requests[id].handler
              /\ lastResponse'.params = requests[id].params
              /\ lastResponse'.response.kind = "result"
              /\ Body(lastResponse'.response) \in
                    {SuccessOutput(requests[id].ts),
                     FailureOutput(ErrorMessage(requests'[id].reported), now)}
        /\ (requests[id].pc = "free" /\ requests'[id].pc # "free") =>
              IF ~has(tools, notificationTool.name)
              THEN /\ lastResponse'.id = id
                   /\ lastResponse'.response =
                        Error("Unknown tool: " \o notificationTool.name)
              ELSE IF requests'[id].pc = "awaiting"
                   THEN requests'[id].handler = get(tools, notificationTool.name).handler
                   ELSE /\ lastResponse'.id = id
                        /\ lastResponse'.handler = get(tools, notificationTool.name).handler
                        /\ lastResponse'.response.kind = "result"]_vars

\* send-notification was unregistered at time 0 and is still absent; a call of
\* it that was suspended then has been failed by the notifier at time 1 and
\* answered with the failure of handleNotification
C34_Witness ==
    /\ lastCall.op = "unregister"
    /\ lastCall.ret = "true"
    /\ lastCall.events[1].timestamp = 0
    /\ ~has(tools, notificationTool.name)
    /\ lastResponse.handler = "handleNotification"
    /\ lastResponse.response.kind = "result"
    /\ Body(lastResponse.response) = FailureOutput("Notification error: boom", 1)

\* C35: handleNotification never throws. Every tools/call of send-notification
\* that has been answered (its input was invalid, the notifier's callback had
\* an error or none, or the timer expired) was answered with a result that
\* holds the handler's output object, never with the protocol error "Tool
\* execution failed: ...".
C35_NotificationNeverRaises ==
    /\ IsNotificationCall(lastResponse) =>
            /\ lastResponse.handler = "handleNotification"
            /\ lastResponse.response.kind = "result"
            /\ Body(lastResponse.response).success \in BOOLEAN
            /\ lastResponse.notified =
                    (DeclaredViolations(OrEmpty(lastResponse.params.arguments)) = {})
    /\ \A id \in 1..MaxReq : requests[id].pc = "done" => requests[id].outcome = "result"

\* A call whose input violates the schema in more than one field has been
\* answered with a result, not with a protocol error
C35_Witness ==
    /\ IsNotificationCall(lastResponse)
    /\ Cardinality(DeclaredViolations(OrEmpty(lastResponse.params.arguments))) > 1
    /\ ~lastResponse.notified
    /\ lastResponse.response.kind = "result"
    /\ Body(lastResponse.response).success = FALSE
    /\ requests[lastResponse.id].outcome = "result"

\* C36: register of a name that is registered replaces the definition at its
\* position in the order of getAll / getNames, register of a name that is not
\* registered (also one that was unregistered before) puts it at the end, and
\* unregister takes the name out; the other tools keep their order in both,
\* and tools/list answers in that order.
C36_RegistrationOrder ==
    [][/\ (lastCall'.op = "register" /\ (lastCall' # lastCall \/ tools' # tools)) =>
            LET tool == lastCall'.arg
                i == IndexOf(tools, tool.name)
            IN  IF has(tools, tool.name)
                THEN /\ getNames(tools') = getNames(tools)
                     /\ getAll(tools') = [getAll(tools) EXCEPT ![i] = tool]
                ELSE /\ getNames(tools') = Append(getNames(tools), tool.name)
                     /\ getAll(tools') = Append(getAll(tools), tool)
       /\ (lastCall'.op = "unregister" /\ (lastCall' # lastCall \/ tools' # tools)) =>
            /\ getNames(tools') =
                    SelectSeq(getNames(tools), LAMBDA n : n # lastCall'.arg)
            /\ getAll(tools') = SelectSeq(getAll(tools), LAMBDA t : t.name # lastCall'.arg)
       /\ (lastResponse'.method = "tools/list" /\ lastResponse' # lastResponse) =>
            [i \in 1..Len(lastResponse'.response.result.tools) |->
                lastResponse'.response.result.tools[i].name] = getNames(tools)]_vars

\* echo was unregistered and registered again and is listed last; calculator
\* was registered and then registered with another definition and kept its
\* place before echo
C36_Witness ==
    /\ getAll(tools) = <<helloWorldTool, healthTool, notificationTool, updatedTool, echoTool>>
    /\ lastCall.op = "register"
    /\ lastCall.arg = updatedTool
    /\ getNames(lastCall.before) = getNames(tools)
    /\ lastResponse.method = "tools/list"
    /\ lastResponse.response.result.tools = Listed(tools)

\* C37: a resources/read of prompt://welcome is always answered with a
\* result: with the text of the file when this read could load it, and with
\* "Welcome to the DingDong Notification Server!" when this read could not,
\* whatever earlier reads have returned.
C37_WelcomeReadNeverFails ==
    [][\A id \in 1..MaxReq :
        (requests[id].pc = "reading" /\ requests'[id].pc = "done") =>
            /\ lastResponse'.id = id
            /\ lastResponse'.params.uri = "prompt://welcome"
            /\ lastResponse'.response.kind = "result"
            /\ requests'[id].outcome = "result"
            /\ lastResponse'.response.result.contents[1].text =
                    IF requests'[id].fileRead THEN "welcome.txt"
                    ELSE "Welcome to the DingDong Notification Server!"]_vars

\* One read of the welcome prompt loaded the file; another, whose readFile
\* failed, was answered last and has the fallback text
C37_Witness ==
    /\ lastResponse.method = "resources/read"
    /\ lastResponse.response.kind = "result"
    /\ lastResponse.response.result.contents[1].text =
            "Welcome to the DingDong Notification Server!"
    /\ \E id \in 1..MaxReq :
            /\ id # lastResponse.id
            /\ requests[id].pc = "done"
            /\ "fileRead" \in DOMAIN requests[id]
            /\ requests[id].fileRead

\* C38: a registry call that publishes records calls every listener that is
\* subscribed with once() exactly once, with the first record the call
\* publishes (the first record published since the listener subscribed), and
\* the listener is not subscribed afterwards, so that no later record reaches
\* it.
C38_OnceListenerGetsFirstRecordOnly ==
    [][(/\ lastCall'.op \in {"register", "unregister", "clear"}
        /\ (lastCall' # lastCall \/ tools' # tools)
        /\ lastCall'.events # <<>>) =>
            /\ \A i \in 1..Len(listeners) :
                IsOnce(listeners[i]) =>
                    SelectSeq(lastCall'.calls, LAMBDA c : c.listener = i) =
                        <<[listener |-> i, kind |-> listeners[i],
                           event |-> lastCall'.events[1]]>>
            /\ \A i \in 1..Len(listeners') : ~IsOnce(listeners'[i])]_vars

\* A configuration that satisfies ServerConfigSchema
SatisfiesSchema(c) ==
    /\ DOMAIN c = {"transport", "port", "host"}
    /\ c.transport \in {Lit("stdio"), Lit("http")}
    /\ c.port.t = "number" /\ c.port.int /\ c.port.n \in 1..65535
    /\ c.host.t = "string"

\* The object that updateConfig parses, with the defaults of the schema
Merged(stored, updates) ==
    LET m == Spread(stored, updates)
    IN  [k \in DOMAIN m |->
            IF m[k] # Undefined THEN m[k]
            ELSE IF k = "port" THEN Num(3000)
            ELSE IF k = "host" THEN Lit("localhost")
            ELSE m[k]]

\* C39: the configuration a ConfigManager holds satisfies ServerConfigSchema;
\* an updateConfig whose merged object does not satisfy it throws and leaves
\* the configuration as it was, one whose merged object does is stored; and
\* changing the object that getConfig returned leaves the configuration as it
\* was.
C39_ConfigAlwaysValid ==
    /\ [](host.config.stored # Undefined => SatisfiesSchema(host.config.stored))
    /\ [][(host'.config # host.config /\ host'.config.op = "updateConfig") =>
            IF SatisfiesSchema(Merged(host.config.stored, host'.config.args))
            THEN /\ host'.config.ret = "void"
                 /\ host'.config.stored = Merged(host.config.stored, host'.config.args)
            ELSE /\ host'.config.ret = "threw"
                 /\ host'.config.stored = host.config.stored]_vars
    /\ [][(host'.config # host.config /\ host'.config.op = "getConfig") =>
            /\ host'.config.stored = host.config.stored
            /\ host'.config.copy =
                    [host.config.stored EXCEPT
                        ![host'.config.args.key] = host'.config.args.value]]_vars

\* An update to port 65536 of a manager for http on port 1 has thrown, and
\* the configuration is still http on port 1
C39_Witness ==
    /\ host.config.op = "updateConfig"
    /\ host.config.args = [port |-> Num(65536)]
    /\ host.config.ret = "threw"
    /\ host.config.stored =
            [transport |-> Lit("http"), port |-> Num(1), host |-> Lit("localhost")]

====
